---- MODULE Spec2Model ----
(***************************************************************************)
(* Model of the crawl, cache and content pipeline of eddie:                *)
(*   - MultiPageTransformer.crawlWebsite, urlToPath, downloadAssets,       *)
(*     generateFinalStructure, the content extractors and convertToJSON    *)
(*     (src/lib/multi-page-transformer.js)                                 *)
(*   - normalizeToEddieSchema, computeBrandSeed, validateEddieDoc and      *)
(*     CrawlCache (src/lib/normalizer.js)                                  *)
(*   - generateApp (src/scripts/generate-app-single-commit.js)             *)
(*   - BulkUpdater.updateRepositories (src/lib/bulk-updater.js)            *)
(* Strings are sequences of tokens; a token stands for a run of characters *)
(* that the code never splits ("example.com", "https:", "/").              *)
(***************************************************************************)
EXTENDS Integers, Sequences, FiniteSets, TLC

\* ------------------------------------------------------------------ bounds
MaxEnv == 2        \* largest value of MAX_CRAWL_DEPTH / MAX_PAGES tried
MaxAnchors == 2    \* largest number of <a href> elements on one page
MaxSitePages == 2  \* largest number of pages in this.pages after a crawl
MaxDocPages == 2   \* largest number of pages of a document handed to validateEddieDoc
MaxImages == 2     \* largest number of <img> elements on one page

\* ------------------------------------------------------- program constants
DefaultMaxDepth == 3
DefaultMaxPages == 50
LinkCap == 20

\* --------------------------------------------------------------------- URLs
\* A parsed WHATWG URL; every component is a token or a sequence of tokens.
MkUrl(protocol, hostname, pathname, search, hash) ==
  [protocol |-> protocol, hostname |-> hostname, pathname |-> pathname,
   search |-> search, hash |-> hash]

\* url.href: the serialisation the browser hands back from page.evaluate.
Href(u) ==
  <<u.protocol>>
    \o (IF u.hostname # "" THEN <<"//", u.hostname>> ELSE <<>>)
    \o u.pathname \o u.search \o u.hash

\* String.prototype.includes on token sequences.
Includes(s, t) ==
  \E i \in 0..(Len(s) - Len(t)) : SubSeq(s, i + 1, i + Len(t)) = t

SeedUrl == MkUrl("https:", "example.com", <<"/">>, <<>>, <<>>)
PageA == MkUrl("https:", "example.com", <<"/", "a">>, <<>>, <<>>)
FragmentA == MkUrl("https:", "example.com", <<"/", "a">>, <<>>, <<"#", "top">>)
ExternalUrl == MkUrl("https:", "other.com", <<"/">>, <<>>, <<>>)
RefUrl == MkUrl("https:", "other.com", <<"/">>, <<"?", "ref=", "example.com">>, <<>>)
MailtoUrl == MkUrl("mailto:", "", <<"info@", "example.com">>, <<>>, <<>>)
TelUrl == MkUrl("tel:", "", <<"555">>, <<>>, <<>>)

\* The hrefs a page of the crawled site may carry.
Anchors ==
  {SeedUrl, PageA, FragmentA, ExternalUrl, RefUrl, MailtoUrl, TelUrl}

RECURSIVE SeqsUpTo(_, _)
SeqsUpTo(S, n) ==
  IF n = 0 THEN {<<>>}
  ELSE LET shorter == SeqsUpTo(S, n - 1)
       IN shorter \cup {Append(s, x) : s \in {t \in shorter : Len(t) = n - 1}, x \in S}

AnchorLists == SeqsUpTo(Anchors, MaxAnchors)

\* ---------------------------------------------------------------- variables
VARIABLES
  env,           \* process.env: [MAX_CRAWL_DEPTH, MAX_PAGES] as parseInt reads them
  maxDepth,      \* this.maxDepth
  maxPages,      \* this.maxPages
  domain,        \* this.domain
  visitedUrls,   \* this.visitedUrls
  pages,         \* this.pages, a Map in insertion order: Seq of [url, depth]
  stack,         \* the activation records of crawlWebsite, innermost last
  openBrowsers,  \* browsers launched by crawlWebsite and not yet closed
  crawlStatus,   \* "idle", "running", "returned" or "threw": the outer call
  events,        \* history of the run: <<kind, url>> in program order
  store,         \* the cache file crawl-metadata.json: [file, entries]
  cacheWritable, \* whether fs.writeJson / fs.remove on the cache file succeed
  now,           \* the system clock, in hours
  lastCall,      \* the CrawlCache call that has just completed, with its outcome
  keyIn,         \* arguments of two generateCacheKey calls
  keyOut,        \* their results
  fnIn,          \* argument of a call of one content function
  fnOut,         \* its result, <<>> until the call has been made
  siteData,      \* generateApp's siteData, <<>> until it is assigned
  eddieDoc,      \* generateApp's eddieDoc, <<>> until it is assigned
  verdict,       \* outcome of validateEddieDoc(eddieDoc), <<>> until it ran
  run,           \* the generateApp run in progress: position, argv, effects
  updateLog,     \* logs/update-log.json: repository name -> its last entry
  results        \* what the last updateRepositories call returned, else <<>>

crawlVars ==
  <<env, maxDepth, maxPages, domain, visitedUrls, pages, stack, openBrowsers,
    crawlStatus, events>>

cacheVars == <<store, cacheWritable, now, lastCall>>
keyVars == <<keyIn, keyOut>>
fnVars == <<fnIn, fnOut>>
docVars == <<siteData, eddieDoc, verdict>>
updateVars == <<updateLog, results>>

vars == <<crawlVars, cacheVars, keyVars, fnVars, docVars, run, updateVars>>

\* ------------------------------------------------------------- constructor
\* The value of parseInt(process.env.X) when the variable is not set.
NaN == -1

\* parseInt(process.env.X) || dflt: NaN and 0 are falsy.
ParseIntOr(parsed, dflt) ==
  IF parsed = NaN \/ parsed = 0 THEN dflt ELSE parsed

EnvValues == {NaN} \cup (0..MaxEnv)

\* The environments a crawl is constructed in, and the one that sets nothing.
EnvInputs == [MAX_CRAWL_DEPTH : EnvValues, MAX_PAGES : EnvValues]
EnvUnset == [MAX_CRAWL_DEPTH |-> NaN, MAX_PAGES |-> NaN]

CrawlInit ==
  /\ maxDepth = ParseIntOr(env.MAX_CRAWL_DEPTH, DefaultMaxDepth)
  /\ maxPages = ParseIntOr(env.MAX_PAGES, DefaultMaxPages)
  /\ domain = "null"
  /\ visitedUrls = {}
  /\ pages = <<>>
  /\ stack = <<>>
  /\ openBrowsers = 0
  /\ crawlStatus = "idle"
  /\ events = <<>>

\* ------------------------------------------------------------ crawlWebsite
\* Mutant: the depth argument of the call is dropped.
Frame_DepthZero(url, depth) ==
  [url |-> url, depth |-> 0, pc |-> "enter", links |-> <<>>]

\* The activation record of crawlWebsite(url, depth) at its first statement.
Frame(url, depth) ==
  [url |-> url, depth |-> depth, pc |-> "enter", links |-> <<>>]

Top == stack[Len(stack)]
Caller == SubSeq(stack, 1, Len(stack) - 1)
SetTop(f) == [stack EXCEPT ![Len(stack)] = f]

PageUrls == {pages[k].url : k \in 1..Len(pages)}

\* Map.prototype.set: a new key is appended, an existing key keeps its place.
MapSet(m, rec) ==
  IF \E k \in 1..Len(m) : m[k].url = rec.url
  THEN [k \in 1..Len(m) |-> IF m[k].url = rec.url THEN rec ELSE m[k]]
  ELSE Append(m, rec)

\* Mutants of the visited-set operations: a test that never finds the URL,
\* an insert that is lost.
VisitedHas_Never(s, url) == FALSE
VisitedAdd_Lost(s, url) == s

\* Set.prototype.has / Set.prototype.add on this.visitedUrls.
VisitedHas(s, url) == url \in s
VisitedAdd(s, url) == s \cup {url}

\* Mutant of the guard: the page budget is tested with > instead of >=.
OverLimit_OffByOne(depth, visited) ==
  depth > maxDepth \/ Cardinality(visited) > maxPages

\* The guard at the head of crawlWebsite.
OverLimit(depth, visited) ==
  depth > maxDepth \/ Cardinality(visited) >= maxPages

\* The two filters and the slice of the link-extraction callback.
KeepLink(url, baseDomain) ==
  /\ Includes(Href(url), <<baseDomain>>)
  /\ ~Includes(Href(url), <<"#">>)
  /\ ~Includes(Href(url), <<"mailto:">>)
  /\ ~Includes(Href(url), <<"tel:">>)

InternalLinks(anchors, baseDomain) ==
  LET Keep(u) == KeepLink(u, baseDomain)
      kept == SelectSeq(anchors, Keep)
  IN SubSeq(kept, 1, IF Len(kept) < LinkCap THEN Len(kept) ELSE LinkCap)

\* What the callback can return for a base domain: its result on every list
\* of anchors a page may carry.
ExtractedLinks ==
  [baseDomain \in {SeedUrl.hostname} |->
     {InternalLinks(anchors, baseDomain) : anchors \in AnchorLists}]

\* A return of the innermost call; the outermost return ends the run.
ReturnTo(callers) ==
  /\ stack' = callers
  /\ crawlStatus' = IF callers = <<>> THEN "returned" ELSE crawlStatus

\* transformer.baseUrl/domain are set and crawlWebsite(url) is called.
StartCrawl ==
  /\ crawlStatus = "idle"
  /\ domain' = SeedUrl.hostname
  /\ stack' = <<Frame(SeedUrl, 0)>>
  /\ crawlStatus' = "running"
  /\ UNCHANGED <<maxDepth, maxPages, visitedUrls, pages, openBrowsers, events>>

\* Mutant: the URL is added to the visited set before the guard is tested.
Enter_AddBeforeGuard ==
  /\ crawlStatus = "running" /\ Top.pc = "enter"
  /\ visitedUrls' = VisitedAdd(visitedUrls, Top.url)
  /\ IF OverLimit(Top.depth, visitedUrls) \/ VisitedHas(visitedUrls, Top.url)
     THEN /\ ReturnTo(Caller)
          /\ UNCHANGED events
     ELSE /\ events' = Append(events, <<"fetch", Top.url>>)
          /\ stack' = SetTop([Top EXCEPT !.pc = "launch"])
          /\ UNCHANGED crawlStatus
  /\ UNCHANGED <<maxDepth, maxPages, domain, pages, openBrowsers>>

\* Lines 70-79 and the call of puppeteer.launch: one synchronous stretch.
Enter ==
  /\ crawlStatus = "running" /\ Top.pc = "enter"
  /\ IF OverLimit(Top.depth, visitedUrls) \/ VisitedHas(visitedUrls, Top.url)
     THEN /\ ReturnTo(Caller)
          /\ UNCHANGED <<visitedUrls, events>>
     ELSE /\ visitedUrls' = VisitedAdd(visitedUrls, Top.url)
          /\ events' = Append(events, <<"fetch", Top.url>>)
          /\ stack' = SetTop([Top EXCEPT !.pc = "launch"])
          /\ UNCHANGED crawlStatus
  /\ UNCHANGED <<maxDepth, maxPages, domain, pages, openBrowsers>>

\* Mutant of the catch block: the error is rethrown to the outermost caller.
Catch_Rethrow(kind) ==
  /\ events' = Append(events, <<kind, Top.url>>)
  /\ stack' = <<>>
  /\ crawlStatus' = "threw"

\* The catch block of crawlWebsite: warn and fall off the end of the call.
Catch(kind) ==
  /\ events' = Append(events, <<kind, Top.url>>)
  /\ ReturnTo(Caller)

\* await puppeteer.launch(...)
Launch ==
  /\ crawlStatus = "running" /\ Top.pc = "launch"
  /\ \/ /\ openBrowsers' = openBrowsers + 1
        /\ stack' = SetTop([Top EXCEPT !.pc = "load"])
        /\ UNCHANGED <<crawlStatus, events>>
     \/ /\ Catch("fetch-failed")
        /\ UNCHANGED openBrowsers
  /\ UNCHANGED <<maxDepth, maxPages, domain, visitedUrls, pages>>

\* newPage, setViewport, goto, the metadata evaluate; then this.pages.set.
Load ==
  /\ crawlStatus = "running" /\ Top.pc = "load"
  /\ \/ /\ pages' = MapSet(pages, [url |-> Top.url, depth |-> Top.depth])
        /\ events' = Append(events, <<"recorded", Top.url>>)
        /\ stack' = SetTop([Top EXCEPT !.pc = "links"])
        /\ UNCHANGED crawlStatus
     \/ /\ Catch("fetch-failed")
        /\ UNCHANGED pages
  /\ UNCHANGED <<maxDepth, maxPages, domain, visitedUrls, openBrowsers>>

\* The link-extraction evaluate.
ExtractLinks ==
  /\ crawlStatus = "running" /\ Top.pc = "links"
  /\ \/ \E links \in ExtractedLinks[domain] :
          /\ stack' = SetTop([Top EXCEPT !.pc = "close", !.links = links])
          /\ UNCHANGED <<crawlStatus, events>>
     \/ Catch("links-failed")
  /\ UNCHANGED <<maxDepth, maxPages, domain, visitedUrls, pages, openBrowsers>>

\* await browser.close()
CloseBrowser ==
  /\ crawlStatus = "running" /\ Top.pc = "close"
  /\ openBrowsers' = openBrowsers - 1
  /\ stack' = SetTop([Top EXCEPT !.pc = "loop"])
  /\ UNCHANGED <<maxDepth, maxPages, domain, visitedUrls, pages, crawlStatus, events>>

\* One iteration of the for-of loop over internalLinks, or its end; the
\* frame keeps the links the iterator has not yet yielded.
FollowLink ==
  /\ crawlStatus = "running" /\ Top.pc = "loop" /\ Top.links # <<>>
  /\ LET link == Head(Top.links)
         next == [Top EXCEPT !.links = Tail(Top.links)]
     IN stack' = IF ~VisitedHas(visitedUrls, link)
                 THEN Append(SetTop(next), Frame(link, Top.depth + 1))
                 ELSE SetTop(next)
  /\ UNCHANGED <<maxDepth, maxPages, domain, visitedUrls, pages, openBrowsers,
                 crawlStatus, events>>

LoopDone ==
  /\ crawlStatus = "running" /\ Top.pc = "loop" /\ Top.links = <<>>
  /\ ReturnTo(Caller)
  /\ UNCHANGED <<maxDepth, maxPages, domain, visitedUrls, pages, openBrowsers, events>>

CrawlNext ==
  \/ StartCrawl
  \/ Enter
  \/ Launch
  \/ Load
  \/ ExtractLinks
  \/ CloseBrowser
  \/ FollowLink
  \/ LoopDone

\* ------------------------------------------------------ crawler properties
EventsOf(kind) == {k \in 1..Len(events) : events[k][1] = kind}
FetchAttempts == Cardinality(EventsOf("fetch"))

\* C1: the page table never holds more than maxPages entries and no recorded
\* page is deeper than maxDepth, for every link graph and every pattern of
\* failing fetches.
C1_DepthPageBound ==
  /\ Len(pages) <= maxPages
  /\ \A k \in 1..Len(pages) : pages[k].depth <= maxDepth

\* A finished run that filled the page budget with a page at the depth limit.
C1_Witness ==
  /\ crawlStatus = "returned"
  /\ Len(pages) = maxPages
  /\ \E k \in 1..Len(pages) : pages[k].depth = maxDepth

\* C2: no URL is fetched twice and no URL is twice in the page table; the
\* step that inserts a URL into the visited set is the step that tested it
\* (the URL is absent before the step, present after it, and that same step
\* starts its one fetch).
C2_NoUrlTwice ==
  /\ \A a, b \in EventsOf("fetch") : events[a][2] = events[b][2] => a = b
  /\ \A a, b \in 1..Len(pages) : pages[a].url = pages[b].url => a = b

C2_TestAndInsertAtomic ==
  (events' # events /\ events'[Len(events')][1] = "fetch") =>
    LET url == events'[Len(events')][2]
    IN /\ ~(url \in visitedUrls)
       /\ visitedUrls' = visitedUrls \cup {url}
       /\ Len(events') = Len(events) + 1

C2_VisitedSetUniqueness == []C2_NoUrlTwice /\ [][C2_TestAndInsertAtomic]_vars

\* A cyclic link graph: a page below the seed is about to follow a link back
\* to the seed, which is already visited and recorded.
C2_Witness ==
  /\ crawlStatus = "running"
  /\ Top.pc = "loop" /\ Top.depth >= 1
  /\ Top.links # <<>> /\ Head(Top.links) = SeedUrl
  /\ SeedUrl \in PageUrls

\* C3: every crawl run returns, after at most maxPages fetch attempts.
C3_Terminates ==
  /\ [](FetchAttempts <= maxPages)
  /\ (crawlStatus = "running") ~> (crawlStatus = "returned")

\* A run that stopped because the page budget was used up.
C3_Witness ==
  /\ crawlStatus = "returned"
  /\ FetchAttempts = maxPages
  /\ Cardinality(visitedUrls) = maxPages

\* C4 (as claimed): every URL that is enqueued or fetched has the seed's host.
C4_OnlySeedHostFetched ==
  /\ \A k \in 1..Len(stack) : stack[k].url.hostname = SeedUrl.hostname
  /\ \A k \in EventsOf("fetch") : events[k][2].hostname = SeedUrl.hostname

\* C5: a failed fetch does not throw out of crawlWebsite and does not abort
\* the crawl: the failed URL is not in the page table, recorded pages stay,
\* and the failing call returns to its caller, whose remaining links are
\* untouched.
IsPrefix(s, t) == Len(s) <= Len(t) /\ SubSeq(t, 1, Len(s)) = s

C5_FailedUrlLeftOut ==
  /\ crawlStatus # "threw"
  /\ \A k \in EventsOf("fetch-failed") : events[k][2] \notin PageUrls

C5_FailureStep ==
  /\ IsPrefix(pages, pages')
  /\ (events' # events /\ events'[Len(events')][1] = "fetch-failed") =>
       /\ pages' = pages
       /\ stack' = Caller
       /\ crawlStatus' = (IF Caller = <<>> THEN "returned" ELSE "running")

DefaultMaxAgeHours == 24

\* The instants at which the clock is sampled (hours since the first one).
Instants == {0, 1, 23, 24, 25, 49}

\* -------------------------------------------------------------- URL strings
\* A URL string as the caller typed it, cut into its components.  An empty
\* protocol is a string that new URL() rejects.
RawSite == MkUrl("https:", "example.com", <<>>, <<>>, <<>>)
RawSiteSlash == MkUrl("https:", "example.com", <<"/">>, <<>>, <<>>)
RawSiteUpper == MkUrl("HTTPS:", "Example.COM", <<"/">>, <<>>, <<>>)
RawAbout == MkUrl("https:", "example.com", <<"/", "about">>, <<>>, <<>>)
RawAboutSlash == MkUrl("https:", "example.com", <<"/", "about", "/">>, <<>>, <<>>)
RawAboutUpper == MkUrl("HTTPS:", "Example.COM", <<"/", "about">>, <<>>, <<>>)
RawAboutQuery == MkUrl("https:", "example.com", <<"/", "about">>, <<"?", "v=2">>, <<>>)
RawNoScheme == MkUrl("", "", <<"example.com">>, <<>>, <<>>)

UpperToLower ==
  ("HTTPS:" :> "https:") @@ ("Example.COM" :> "example.com")
    @@ ("Bayou" :> "bayou") @@ ("Art" :> "art") @@ ("Council" :> "council")
    @@ ("Company" :> "company") @@ ("TECH" :> "tech") @@ ("Logo" :> "logo")
    @@ ("Icon" :> "icon") @@ ("ICON" :> "icon")
    @@ ("Decoration" :> "decoration") @@ ("Team" :> "team")

\* ASCII lowercasing, as the URL parser applies it to scheme and host.
ToLower(t) == IF t \in DOMAIN UpperToLower THEN UpperToLower[t] ELSE t

CanParse(raw) == raw.protocol # ""

\* new URL(url): scheme and host lowercased, an empty path becomes "/".
ParseUrl(raw) ==
  MkUrl(ToLower(raw.protocol), ToLower(raw.hostname),
        IF raw.pathname = <<>> THEN <<"/">> ELSE raw.pathname,
        raw.search, raw.hash)

\* The string itself, for a URL string that new URL() rejects.
RawText(raw) ==
  (IF raw.protocol # "" THEN <<raw.protocol>> ELSE <<>>)
    \o (IF raw.hostname # "" THEN <<"//", raw.hostname>> ELSE <<>>)
    \o raw.pathname \o raw.search \o raw.hash

\* pathname.replace(/\/$/, "")
StripTrailingSlash(path) ==
  IF path # <<>> /\ path[Len(path)] = "/"
  THEN SubSeq(path, 1, Len(path) - 1)
  ELSE path

NormalizeUrl(raw) ==
  IF CanParse(raw)
  THEN LET u == ParseUrl(raw)
       IN <<u.protocol, "//", u.hostname>> \o StripTrailingSlash(u.pathname)
  ELSE RawText(raw)

\* ------------------------------------------------------------------ options
\* An options object: its own properties in insertion order, <<name, value>>.
OptDepth2Pages20 == << <<"depth", "2">>, <<"maxPages", "20">> >>
OptDepth2Pages21 == << <<"depth", "2">>, <<"maxPages", "21">> >>
OptPages20Depth2 == << <<"maxPages", "20">>, <<"depth", "2">> >>
OptDepth2Pages24837 == << <<"depth", "2">>, <<"maxPages", "24837">> >>
OptDepth2Pages44847 == << <<"depth", "2">>, <<"maxPages", "44847">> >>
OptEmpty == << >>

RECURSIVE StringifyProps(_)
StringifyProps(props) ==
  IF props = <<>> THEN <<>>
  ELSE <<"\"", props[1][1], "\"", ":", props[1][2]>>
         \o (IF Len(props) > 1 THEN <<",">> ELSE <<>>)
         \o StringifyProps(Tail(props))

\* JSON.stringify(options) for an object with numeric property values.
JsonStringify(props) == <<"{">> \o StringifyProps(props) \o <<"}">>

\* crypto md5 of the JSON text, hex digest, first 8 digits: the values md5
\* takes on the JSON texts of the option objects above.
Md5Hex8(text) ==
  CASE text = JsonStringify(OptDepth2Pages20) -> "f0fe6162"
    [] text = JsonStringify(OptDepth2Pages21) -> "ab81a830"
    [] text = JsonStringify(OptPages20Depth2) -> "abb54f62"
    [] text = JsonStringify(OptDepth2Pages24837) -> "8e703be5"
    [] text = JsonStringify(OptDepth2Pages44847) -> "8e703be5"
    [] text = JsonStringify(OptEmpty) -> "99914b93"

GenerateCacheKey(raw, options) ==
  NormalizeUrl(raw) \o <<"-", Md5Hex8(JsonStringify(options))>>

\* ------------------------------------------------------------ the store file
EmptyCache == [k \in {} |-> 0]
Loaded(entries) == [ok |-> TRUE, entries |-> entries]
Thrown == [ok |-> FALSE, entries |-> EmptyCache]

\* fs.readJson: throws on a file that is not JSON.
ReadJson(st) == IF st.file = "json" THEN Loaded(st.entries) ELSE Thrown

\* Mutant: loadCache without its try/catch.
LoadCache_NoCatch(st) ==
  IF st.file = "absent" THEN Loaded(EmptyCache) ELSE ReadJson(st)

LoadCache(st) ==
  IF st.file = "absent" THEN Loaded(EmptyCache)
  ELSE IF ReadJson(st).ok THEN ReadJson(st) ELSE Loaded(EmptyCache)

\* The outcome of saveCache: [ok, store]; a failed write leaves the file.
SaveCache(st, cache, writable) ==
  IF writable THEN [ok |-> TRUE, store |-> [file |-> "json", entries |-> cache]]
  ELSE [ok |-> TRUE, store |-> st]

\* ------------------------------------------------------------------ queries
AgeHours(entry, clock) == clock - entry.timestamp

IsRecent(entry, clock, maxAgeHours) == AgeHours(entry, clock) < maxAgeHours

\* [ok, value]: ok is FALSE when the call throws.
HasRecentCrawl(st, raw, options, maxAgeHours, clock) ==
  LET cache == LoadCache(st)
      key == GenerateCacheKey(raw, options)
  IN IF ~cache.ok THEN [ok |-> FALSE, value |-> FALSE]
     ELSE IF key \notin DOMAIN cache.entries THEN [ok |-> TRUE, value |-> FALSE]
     ELSE [ok |-> TRUE, value |-> IsRecent(cache.entries[key], clock, maxAgeHours)]

\* [ok, found, entry]
GetCrawlMetadata(st, raw, options) ==
  LET cache == LoadCache(st)
      key == GenerateCacheKey(raw, options)
  IN [ok |-> cache.ok, found |-> cache.ok /\ key \in DOMAIN cache.entries]

\* [ok, value]; the log lines read metadata.timestamp and
\* metadata.metadata.pagesCount, which throws when no entry is found.
ShouldCrawl(st, raw, options, forceRecrawl, clock) ==
  IF forceRecrawl THEN [ok |-> TRUE, value |-> TRUE]
  ELSE LET recent == HasRecentCrawl(st, raw, options, DefaultMaxAgeHours, clock)
       IN IF ~recent.ok THEN [ok |-> FALSE, value |-> FALSE]
          ELSE IF recent.value
               THEN LET md == GetCrawlMetadata(st, raw, options)
                    IN [ok |-> md.ok /\ md.found, value |-> FALSE]
               ELSE [ok |-> TRUE, value |-> TRUE]

\* ------------------------------------------------------------------ metadata
\* The metadata argument of recordCrawl: a record with some of the count
\* fields; x || 0 fills in a missing one.
MetaNone == [crawlDepth |-> 2]
MetaLarge == [pagesCount |-> 3, assetsCount |-> 2, crawlDepth |-> 2]
MetaInputs == {MetaNone, MetaLarge}

OrZero(m, field) == IF field \in DOMAIN m THEN m[field] ELSE 0

CacheEntry(raw, options, m, clock) ==
  [url |-> NormalizeUrl(raw),
   timestamp |-> clock,
   options |-> options,
   metadata |-> [pagesCount |-> OrZero(m, "pagesCount"),
                 assetsCount |-> OrZero(m, "assetsCount"),
                 crawlDepth |-> OrZero(m, "crawlDepth")]]

\* Mutant: the assignment starts from a fresh object.
Put_Fresh(entries, key, entry) == [k \in {key} |-> entry]

\* cache[key] = entry on a plain object.
Put(entries, key, entry) ==
  [k \in DOMAIN entries \cup {key} |-> IF k = key THEN entry ELSE entries[k]]

\* Mutant: the delete statement is dropped.
Without_Nothing(entries, keys) == entries

\* delete cache[key] for every key in a set.
Without(entries, keys) == [k \in DOMAIN entries \ keys |-> entries[k]]

RECURSIVE SumOver(_, _, _)
SumOver(entries, keys, field) ==
  IF keys = {} THEN 0
  ELSE LET k == CHOOSE x \in keys : TRUE
       IN entries[k].metadata[field] + SumOver(entries, keys \ {k}, field)

\* -1 stands for the null of an empty cache.
MinTimestamp(entries) ==
  IF DOMAIN entries = {} THEN -1
  ELSE CHOOSE t \in {entries[k].timestamp : k \in DOMAIN entries} :
         \A k \in DOMAIN entries : t <= entries[k].timestamp

MaxTimestamp(entries) ==
  IF DOMAIN entries = {} THEN -1
  ELSE CHOOSE t \in {entries[k].timestamp : k \in DOMAIN entries} :
         \A k \in DOMAIN entries : t >= entries[k].timestamp

CacheStats(entries) ==
  [totalEntries |-> Cardinality(DOMAIN entries),
   oldestEntry |-> MinTimestamp(entries),
   newestEntry |-> MaxTimestamp(entries),
   totalPages |-> SumOver(entries, DOMAIN entries, "pagesCount"),
   totalAssets |-> SumOver(entries, DOMAIN entries, "assetsCount")]

\* ------------------------------------------------------------------- actions
CacheUrlInputs == {RawSite, RawSiteUpper}
CacheOptionInputs == {OptDepth2Pages20, OptDepth2Pages21}
MaxAgeInputs == {1, 24, 48}

NoCall ==
  [op |-> "none", url |-> RawSite, options |-> OptEmpty, arg |-> 0,
   file |-> "absent", writable |-> TRUE, ok |-> TRUE, value |-> 0]

Call(op, raw, options, arg, ok, value) ==
  [op |-> op, url |-> raw, options |-> options, arg |-> arg,
   file |-> store.file, writable |-> cacheWritable, ok |-> ok, value |-> value]

CacheInit ==
  /\ store = [file |-> "absent", entries |-> EmptyCache]
  /\ cacheWritable = TRUE
  /\ now = 0
  /\ lastCall = NoCall

\* Time passes.
Tick ==
  /\ \E t \in Instants : t > now /\ now' = t
  /\ lastCall' = NoCall
  /\ UNCHANGED <<store, cacheWritable>>

\* The cache file is damaged or replaced behind the program's back.
DamageFile ==
  /\ store.file # "corrupt"
  /\ store' = [file |-> "corrupt", entries |-> EmptyCache]
  /\ lastCall' = NoCall
  /\ UNCHANGED <<cacheWritable, now>>

\* The cache file or its directory changes between writable and read-only.
TogglePermission ==
  /\ cacheWritable' = ~cacheWritable
  /\ lastCall' = NoCall
  /\ UNCHANGED <<store, now>>

ShouldCrawlCall ==
  \E raw \in CacheUrlInputs, options \in CacheOptionInputs, force \in BOOLEAN :
    LET r == ShouldCrawl(store, raw, options, force, now)
    IN /\ lastCall' = Call("shouldCrawl", raw, options, force, r.ok, r.value)
       /\ UNCHANGED <<store, cacheWritable, now>>

RecordCrawlCall ==
  \E raw \in CacheUrlInputs, options \in CacheOptionInputs, m \in MetaInputs :
    LET cache == LoadCache(store)
        key == GenerateCacheKey(raw, options)
        saved == SaveCache(store,
                           Put(cache.entries, key, CacheEntry(raw, options, m, now)),
                           cacheWritable)
    IN /\ store' = IF cache.ok THEN saved.store ELSE store
       /\ lastCall' = Call("recordCrawl", raw, options, m, cache.ok /\ saved.ok, 0)
       /\ UNCHANGED <<cacheWritable, now>>

GetCacheStatsCall ==
  LET cache == LoadCache(store)
  IN /\ lastCall' = Call("getCacheStats", RawSite, OptEmpty, 0, cache.ok,
                         CacheStats(cache.entries))
     /\ UNCHANGED <<store, cacheWritable, now>>

CleanCacheCall ==
  \E maxAgeHours \in MaxAgeInputs :
    LET cache == LoadCache(store)
        old == {k \in DOMAIN cache.entries :
                  AgeHours(cache.entries[k], now) > maxAgeHours}
        saved == SaveCache(store, Without(cache.entries, old), cacheWritable)
        wrote == cache.ok /\ Cardinality(old) > 0
    IN /\ store' = IF wrote THEN saved.store ELSE store
       /\ lastCall' = Call("cleanCache", RawSite, OptEmpty, maxAgeHours,
                           cache.ok /\ (wrote => saved.ok), Cardinality(old))
       /\ UNCHANGED <<cacheWritable, now>>

ClearCacheCall ==
  /\ store' = IF store.file # "absent" /\ cacheWritable
              THEN [file |-> "absent", entries |-> EmptyCache]
              ELSE store
  /\ lastCall' = Call("clearCache", RawSite, OptEmpty, 0, TRUE, 0)
  /\ UNCHANGED <<cacheWritable, now>>

\* generateApp, lines 487-502: the cache gate.  argv.cacheMaxAge is parsed
\* but never read.
GateCall ==
  \E raw \in CacheUrlInputs, argvDepth \in {"2"}, argvMaxPages \in {"20", "21"},
     force \in BOOLEAN, cacheMaxAge \in MaxAgeInputs :
    LET crawlOptions == << <<"depth", argvDepth>>, <<"maxPages", argvMaxPages>> >>
        r == ShouldCrawl(store, raw, crawlOptions, force, now)
    IN /\ lastCall' = Call("gate", raw, crawlOptions,
                           [force |-> force, cacheMaxAge |-> cacheMaxAge],
                           r.ok, r.value)
       /\ UNCHANGED <<store, cacheWritable, now>>

CacheNext ==
  \/ Tick
  \/ DamageFile
  \/ TogglePermission
  \/ ShouldCrawlCall
  \/ RecordCrawlCall
  \/ GetCacheStatsCall
  \/ CleanCacheCall
  \/ ClearCacheCall
  \/ GateCall

\* -------------------------------------------------------- cache properties
HasEntry(st, key) == st.file = "json" /\ key \in DOMAIN st.entries
CalledKey == GenerateCacheKey(lastCall.url, lastCall.options)

\* C6 (as claimed): shouldCrawl is true under forceRecrawl and otherwise
\* false exactly when an entry exists whose age does not exceed 24 hours.
C6_FreshUnlessOlderThanMaxAge ==
  lastCall.op = "shouldCrawl" =>
    /\ lastCall.ok
    /\ lastCall.value =
         (lastCall.arg \/ ~(/\ HasEntry(store, CalledKey)
                            /\ AgeHours(store.entries[CalledKey], now)
                                 <= DefaultMaxAgeHours))

\* C7 (as claimed): the gate of generateApp applies the caller's
\* --cache-max-age: a younger entry means no crawl, an older one a crawl.
C7_GateAppliesCallerMaxAge ==
  (lastCall.op = "gate" /\ ~lastCall.arg.force /\ HasEntry(store, CalledKey)) =>
    LET age == AgeHours(store.entries[CalledKey], now)
    IN /\ (age < lastCall.arg.cacheMaxAge => lastCall.value = FALSE)
       /\ (age > lastCall.arg.cacheMaxAge => lastCall.value = TRUE)

\* C9 (as claimed): recordCrawl leaves exactly one entry under the key, with
\* the current timestamp and the counts of m, leaves all other entries alone,
\* and makes the next shouldCrawl(url, options, false) answer false.
RecordCrawlUpserted ==
  LET key == GenerateCacheKey(lastCall'.url, lastCall'.options)
      m == lastCall'.arg
      before == LoadCache(store).entries
  IN /\ lastCall'.ok
     /\ HasEntry(store', key)
     /\ store'.entries[key].timestamp = now'
     /\ store'.entries[key].metadata.pagesCount = OrZero(m, "pagesCount")
     /\ store'.entries[key].metadata.assetsCount = OrZero(m, "assetsCount")
     /\ DOMAIN store'.entries = DOMAIN before \cup {key}
     /\ \A k \in DOMAIN before \ {key} : store'.entries[k] = before[k]
     /\ ShouldCrawl(store', lastCall'.url, lastCall'.options, FALSE, now')
          = [ok |-> TRUE, value |-> FALSE]

C10_CorruptStoreIsEmptyCache ==
  /\ lastCall.file = "corrupt" =>
       /\ lastCall.ok
       /\ (lastCall.op = "shouldCrawl" /\ ~lastCall.arg) => lastCall.value = TRUE
       /\ lastCall.op = "getCacheStats" => lastCall.value.totalEntries = 0
       /\ lastCall.op = "cleanCache" => lastCall.value = 0
  /\ (lastCall.op = "recordCrawl" /\ ~lastCall.writable) => lastCall.ok

\* getCacheStats has just run on a corrupt store that cannot be written.
C10_Witness ==
  /\ lastCall.op = "getCacheStats"
  /\ lastCall.file = "corrupt"
  /\ ~lastCall.writable
  /\ lastCall.value.totalEntries = 0

\* ====================================================== generateCacheKey alone
KeyUrlInputs ==
  {RawSite, RawSiteSlash, RawSiteUpper, RawAbout, RawAboutSlash, RawAboutUpper,
   RawAboutQuery, RawNoScheme}
KeyOptionInputs ==
  {OptDepth2Pages20, OptDepth2Pages21, OptPages20Depth2, OptDepth2Pages24837,
   OptDepth2Pages44847, OptEmpty}
KeyArgs == [url : KeyUrlInputs, options : KeyOptionInputs]

KeyIdle == /\ keyIn = <<>> /\ keyOut = <<>>

KeyInit == /\ keyIn \in KeyArgs \X KeyArgs /\ keyOut = <<>>

\* Both calls are made, the first one twice.
GenerateKeys ==
  /\ keyOut = <<>>
  /\ keyOut' = <<GenerateCacheKey(keyIn[1].url, keyIn[1].options),
                 GenerateCacheKey(keyIn[2].url, keyIn[2].options),
                 GenerateCacheKey(keyIn[1].url, keyIn[1].options)>>
  /\ UNCHANGED keyIn

KeyNext == GenerateKeys

\* C8 (as claimed): the key is deterministic, equal for URLs that differ only
\* in scheme/host letter case or one trailing slash (with the same options),
\* and different whenever the same URL comes with different options.
SameUpToCaseAndSlash(a, b) ==
  /\ CanParse(a) /\ CanParse(b)
  /\ ToLower(a.protocol) = ToLower(b.protocol)
  /\ ToLower(a.hostname) = ToLower(b.hostname)
  /\ StripTrailingSlash(a.pathname) = StripTrailingSlash(b.pathname)
  /\ a.search = b.search /\ a.hash = b.hash

C8_KeyCollidesExactlyOnEquivalence ==
  keyOut # <<>> =>
    /\ keyOut[1] = keyOut[3]
    /\ (/\ SameUpToCaseAndSlash(keyIn[1].url, keyIn[2].url)
        /\ keyIn[1].options = keyIn[2].options) => keyOut[1] = keyOut[2]
    /\ (/\ keyIn[1].url = keyIn[2].url
        /\ keyIn[1].options # keyIn[2].options) => keyOut[1] # keyOut[2]

\* ================================================================ urlToPath
\* The URL parser percent-encodes a space of the path.
RECURSIVE PercentEncode(_)
PercentEncode(path) ==
  IF path = <<>> THEN <<>>
  ELSE (IF Head(path) = " " THEN <<"%", "20">> ELSE <<Head(path)>>)
         \o PercentEncode(Tail(path))

\* new URL(url).pathname
Pathname(raw) == PercentEncode(ParseUrl(raw).pathname)

\* Tokens that are one character outside [a-zA-Z0-9._/-]; every other token
\* of a path is a run of characters inside that class.
OutsidePathClass == {" ", "%", "&", "?", "~", "+", "="}

\* path.replace(/[^a-zA-Z0-9._/-]/g, "-")
CleanPath(path) ==
  [i \in DOMAIN path |-> IF path[i] \in OutsidePathClass THEN "-" ELSE path[i]]

IndexHtml == <<"index", ".", "html">>

UrlToPath(raw) ==
  IF ~CanParse(raw) THEN IndexHtml
  ELSE LET pathname == Pathname(raw)
           path == IF pathname # <<>> /\ Head(pathname) = "/"
                   THEN Tail(pathname) ELSE pathname
       IN IF path = <<"/">> \/ path = <<>> THEN IndexHtml
          ELSE LET noSlash == StripTrailingSlash(path)
                   withExt == IF ~Includes(noSlash, <<".">>)
                              THEN noSlash \o <<".", "html">>
                              ELSE noSlash
               IN CleanPath(withExt)

\* ============================================================ page content
\* String.prototype.trim: whitespace tokens are dropped from both ends.
Whitespace == {" ", "\n"}
RECURSIVE TrimStart(_)
TrimStart(s) ==
  IF s # <<>> /\ Head(s) \in Whitespace THEN TrimStart(Tail(s)) ELSE s
RECURSIVE TrimEnd(_)
TrimEnd(s) ==
  IF s # <<>> /\ s[Len(s)] \in Whitespace
  THEN TrimEnd(SubSeq(s, 1, Len(s) - 1)) ELSE s
Trim(s) == TrimEnd(TrimStart(s))

\* String.prototype.toLowerCase
LowerCase(s) == [i \in DOMAIN s |-> ToLower(s[i])]

\* Elements of a parsed page; an attribute that is absent is "" or <<>>.
Img(src, alt, class, title) ==
  [src |-> src, alt |-> alt, class |-> class, title |-> title]
H(tag, text) == [tag |-> tag, text |-> text]
A(href, text, class) == [href |-> href, text |-> text, class |-> class]
Ul(li) == [tag |-> "ul", li |-> li]

\* What cheerio.load(html) gives for one page. throws: reading this page's
\* content raises an exception.
Dom(title, description, h, p, img, a, lists, throws) ==
  [title |-> title, description |-> description, h |-> h, p |-> p,
   img |-> img, a |-> a, lists |-> lists, throws |-> throws]

\* parseInt(el.tagName.substring(1))
HeadingLevel ==
  ("h1" :> 1) @@ ("h2" :> 2) @@ ("h3" :> 3) @@ ("h4" :> 4) @@ ("h5" :> 5)
    @@ ("h6" :> 6)

ExtractHeadings(dom) ==
  [i \in DOMAIN dom.h |->
     [level |-> HeadingLevel[dom.h[i].tag], text |-> Trim(dom.h[i].text)]]

ExtractParagraphs(dom) ==
  LET texts == [i \in DOMAIN dom.p |-> Trim(dom.p[i])]
  IN SelectSeq(texts, LAMBDA text : Len(text) > 0)

\* The test extractImages applies to an <img> that has a src.
IsContentImage(el) ==
  /\ ~Includes(el.class, <<"icon">>)
  /\ ~Includes(el.class, <<"logo">>)
  /\ ~Includes(el.class, <<"decoration">>)
  /\ ~Includes(LowerCase(el.alt), <<"icon">>)
  /\ ~Includes(LowerCase(el.alt), <<"logo">>)

ExtractImages(dom) ==
  LET kept == SelectSeq(dom.img, LAMBDA el : el.src # "" /\ IsContentImage(el))
  IN [i \in DOMAIN kept |->
        [src |-> kept[i].src, alt |-> kept[i].alt, title |-> kept[i].title]]

\* extractLinks of the content extractor (the crawler's own link step is
\* ExtractLinks above).
ExtractContentLinks(dom) ==
  LET kept == SelectSeq(dom.a, LAMBDA el :
                /\ el.href # ""
                /\ ~Includes(el.class, <<"nav">>)
                /\ ~Includes(el.class, <<"menu">>)
                /\ ~Includes(el.class, <<"header">>)
                /\ ~Includes(el.class, <<"footer">>)
                /\ Len(Trim(el.text)) > 0)
  IN [i \in DOMAIN kept |-> [href |-> kept[i].href, text |-> Trim(kept[i].text)]]

ExtractLists(dom) ==
  [i \in DOMAIN dom.lists |->
     [type |-> dom.lists[i].tag,
      items |-> [j \in DOMAIN dom.lists[i].li |-> Trim(dom.lists[i].li[j])]]]

\* The outcome of a call that may throw.
Returned(value) == [ok |-> TRUE, value |-> value]
Threw(error) == [ok |-> FALSE, value |-> error]

\* JavaScript values whose kind the code tests.
JsArray(items) == [kind |-> "array", items |-> items]
JsUndefined == [kind |-> "undefined", items |-> <<>>]
JsObject == [kind |-> "object", items |-> <<>>]
JsString(chars) == [kind |-> "string", chars |-> chars]

\* a || b on strings
OrElse(a, b) == IF a # <<>> THEN a ELSE b

\* One entry of this.pages; the crawler takes metadata from the rendered
\* document and path from urlToPath.
PageRecord(raw, html) ==
  [url |-> raw, html |-> html,
   metadata |-> [title |-> Trim(html.title), description |-> html.description],
   path |-> UrlToPath(raw)]

\* The content object convertToJSON builds for one page (tables, forms and
\* contentBlocks are never read again and are left out).
ExtractContent(dom) ==
  [headings |-> ExtractHeadings(dom),
   paragraphs |-> [i \in DOMAIN ExtractParagraphs(dom) |->
                     JsString(ExtractParagraphs(dom)[i])],
   images |-> ExtractImages(dom),
   links |-> ExtractContentLinks(dom),
   lists |-> ExtractLists(dom)]

StructuredPage(rec) ==
  [url |-> rec.url, path |-> rec.path,
   title |-> OrElse(OrElse(rec.metadata.title, rec.html.title), <<"Untitled">>),
   description |-> OrElse(rec.metadata.description, rec.html.description),
   content |-> ExtractContent(rec.html)]

\* convertToJSON() on this.pages = pageMap and this.domain = host: its one
\* try block spans the whole loop and its catch rethrows.
ConvertToJSON(pageMap, host) ==
  IF \E i \in DOMAIN pageMap : pageMap[i].html.throws
  THEN Threw(<<"convertToJSON">>)
  ELSE Returned(
    [metadata |->
       [domain |-> host,
        title |-> IF pageMap = <<>> THEN host
                  ELSE OrElse(OrElse(pageMap[1].metadata.title,
                                     pageMap[1].html.title), host),
        description |-> IF pageMap = <<>> THEN <<>>
                        ELSE OrElse(pageMap[1].metadata.description,
                                    pageMap[1].html.description)],
     pages |-> [i \in DOMAIN pageMap |-> StructuredPage(pageMap[i])],
     assets |-> <<>>])

\* ========================================================= computeBrandSeed
ArtsKeywords == {"art", "culture", "museum", "gallery", "creative", "bayou"}
BusinessKeywords == {"business", "corporate", "company"}
EducationKeywords == {"education", "school", "university", "learning", "academic"}
HealthKeywords == {"health", "medical", "hospital", "wellness", "care"}
TechKeywords == {"tech", "software", "digital", "app", "web"}

\* content.includes(k1) || content.includes(k2) || ... over the keywords of a group
SomeKeyword(content, keywords) == \E k \in keywords : Includes(content, <<k>>)

\* Mutant: the business group is tested before the arts group.
ComputeBrandSeed_BusinessFirst(host, title, description) ==
  LET content == LowerCase(host \o <<" ">> \o title \o <<" ">> \o description)
  IN IF SomeKeyword(content, BusinessKeywords) THEN "#2196F3"
     ELSE IF SomeKeyword(content, ArtsKeywords) THEN "#9C27B0"
     ELSE IF SomeKeyword(content, EducationKeywords) THEN "#4CAF50"
     ELSE IF SomeKeyword(content, HealthKeywords) THEN "#E91E63"
     ELSE IF SomeKeyword(content, TechKeywords) THEN "#FF9800"
     ELSE "#5F6FFF"

ComputeBrandSeed(host, title, description) ==
  LET content == LowerCase(host \o <<" ">> \o title \o <<" ">> \o description)
  IN IF SomeKeyword(content, ArtsKeywords) THEN "#9C27B0"
     ELSE IF SomeKeyword(content, BusinessKeywords) THEN "#2196F3"
     ELSE IF SomeKeyword(content, EducationKeywords) THEN "#4CAF50"
     ELSE IF SomeKeyword(content, HealthKeywords) THEN "#E91E63"
     ELSE IF SomeKeyword(content, TechKeywords) THEN "#FF9800"
     ELSE "#5F6FFF"

\* =================================================== normalizeToEddieSchema
\* `Page ${index + 1}` and `page-${index + 1}`, index + 1 being n
PageLabel(n) == <<"Page", " ", ToString(n)>>
PageSlug(n) == <<"page", "-", ToString(n)>>

\* paragraph.text: the text property of an object, undefined on a string.
TextProperty(value) == IF value.kind = "object" THEN value.text ELSE <<>>

HeadingSection(level, text) == [type |-> "heading", level |-> level, text |-> text]
ParagraphSection(text) == [type |-> "paragraph", text |-> text]
ImageSection(img) ==
  [type |-> "image", src |-> img.src, alt |-> img.alt, caption |-> img.title]
GallerySection(images) ==
  [type |-> "gallery", items |-> [i \in DOMAIN images |-> images[i].src]]
ButtonSection(link) == [type |-> "button", text |-> link.text, href |-> link.href]
ListSection(list) == [type |-> "list", items |-> list.items]

\* The sections of eddiePages[n - 1], in the order the code pushes them.
Sections(page, n) ==
  LET images == page.content.images
      title == OrElse(page.title, PageLabel(n))
      hero == IF Len(images) > 0
              THEN <<HeadingSection(1, title), ImageSection(images[1])>>
              ELSE <<HeadingSection(1, title)>>
      description == IF Len(page.description) > 0 /\ Len(Trim(page.description)) > 0
                     THEN <<ParagraphSection(page.description)>>
                     ELSE <<>>
      headings == [i \in DOMAIN page.content.headings |->
                     HeadingSection(page.content.headings[i].level,
                                    page.content.headings[i].text)]
      withText == SelectSeq(page.content.paragraphs, LAMBDA paragraph :
                    /\ Len(TextProperty(paragraph)) > 0
                    /\ Len(Trim(TextProperty(paragraph))) > 0)
      paragraphs == [i \in DOMAIN withText |->
                       ParagraphSection(TextProperty(withText[i]))]
      before == hero \o description \o headings \o paragraphs
      gallery == IF Len(images) > 1 THEN <<GallerySection(images)>>
                 ELSE IF /\ Len(images) = 1
                         /\ ~\E i \in DOMAIN before : before[i].type = "image"
                      THEN <<ImageSection(images[1])>>
                      ELSE <<>>
      linked == SelectSeq(page.content.links, LAMBDA link :
                  link.href # "" /\ Len(link.text) > 0)
      buttons == [i \in DOMAIN linked |-> ButtonSection(linked[i])]
      filled == SelectSeq(page.content.lists, LAMBDA list : Len(list.items) > 0)
      lists == [i \in DOMAIN filled |-> ListSection(filled[i])]
  IN before \o gallery \o buttons \o lists

\* Mutant: slug and title are taken from the page as they are.
EddiePage_NoFallback(page, n) ==
  [slug |-> page.path,
   title |-> page.title,
   hero |-> IF Len(page.content.images) > 0
            THEN <<[title |-> OrElse(page.title, PageLabel(n)),
                    subtitle |-> page.description,
                    image |-> page.content.images[1].src]>>
            ELSE <<>>,
   sections |-> JsArray(Sections(page, n))]

\* An optional field is <<>> when undefined and <<value>> otherwise.
EddiePage(page, n) ==
  [slug |-> OrElse(page.path, PageSlug(n)),
   title |-> OrElse(page.title, PageLabel(n)),
   hero |-> IF Len(page.content.images) > 0
            THEN <<[title |-> OrElse(page.title, PageLabel(n)),
                    subtitle |-> page.description,
                    image |-> page.content.images[1].src]>>
            ELSE <<>>,
   sections |-> JsArray(Sections(page, n))]

NormalizeToEddieSchema(websiteData) ==
  LET metadata == websiteData.metadata
      sitePages == websiteData.pages
      withImages == SelectSeq(sitePages, LAMBDA p : Len(p.content.images) > 0)
  IN [version |-> "1.0",
      site |-> [kind |-> "object",
                title |-> OrElse(metadata.title, metadata.domain),
                description |-> metadata.description,
                brandSeed |-> ComputeBrandSeed(metadata.domain, metadata.title,
                                               metadata.description),
                logo |-> IF withImages = <<>> THEN <<>>
                         ELSE <<withImages[1].content.images[1].src>>],
      nav |-> JsArray([i \in DOMAIN sitePages |->
                         [title |-> OrElse(sitePages[i].title, PageLabel(i)),
                          slug |-> OrElse(sitePages[i].path, PageSlug(i))]]),
      pages |-> JsArray([i \in DOMAIN sitePages |-> EddiePage(sitePages[i], i)])]

\* ========================================================= validateEddieDoc
ValidTypes ==
  {"heading", "paragraph", "image", "gallery", "list", "quote", "button", "html"}

\* First element of a sequence of errors that is one, <<>> when none is.
FirstError(errors) ==
  LET raised == SelectSeq(errors, LAMBDA e : Len(e) > 0)
  IN IF raised = <<>> THEN <<>> ELSE raised[1]

\* The error the checks of section j of page n raise, <<>> when they pass;
\* a missing type is "".
SectionError(section, n, j) ==
  IF section.type = "" THEN <<"is missing type", n, j>>
  ELSE IF section.type \notin ValidTypes THEN <<"has invalid type", n, j>>
  ELSE <<>>

PageError(page, n) ==
  IF Len(page.slug) = 0 \/ Len(page.title) = 0 \/ page.sections.kind = "undefined"
  THEN <<"is missing required fields", n, 0>>
  ELSE IF page.sections.kind # "array"
  THEN <<"sections must be an array", n, 0>>
  ELSE FirstError([j \in DOMAIN page.sections.items |->
                     SectionError(page.sections.items[j], n, j)])

\* Mutant: the section types are not checked against validTypes.
ValidateEddieDoc_AnyType(doc) ==
  IF doc.version # "1.0" THEN Threw(<<"Invalid version", 0, 0>>)
  ELSE IF doc.site.kind # "object" \/ Len(doc.site.title) = 0
  THEN Threw(<<"Site title is required", 0, 0>>)
  ELSE IF doc.nav.kind # "array" \/ Len(doc.nav.items) = 0
  THEN Threw(<<"Navigation is required and must be non-empty", 0, 0>>)
  ELSE IF doc.pages.kind # "array" \/ Len(doc.pages.items) = 0
  THEN Threw(<<"Pages are required and must be non-empty", 0, 0>>)
  ELSE LET error == FirstError([n \in DOMAIN doc.pages.items |->
                      LET e == PageError(doc.pages.items[n], n)
                      IN IF e # <<>> /\ e[1] = "has invalid type" THEN <<>> ELSE e])
       IN IF error = <<>> THEN Returned(TRUE) ELSE Threw(error)

ValidateEddieDoc(doc) ==
  IF doc.version # "1.0" THEN Threw(<<"Invalid version", 0, 0>>)
  ELSE IF doc.site.kind # "object" \/ Len(doc.site.title) = 0
  THEN Threw(<<"Site title is required", 0, 0>>)
  ELSE IF doc.nav.kind # "array" \/ Len(doc.nav.items) = 0
  THEN Threw(<<"Navigation is required and must be non-empty", 0, 0>>)
  ELSE IF doc.pages.kind # "array" \/ Len(doc.pages.items) = 0
  THEN Threw(<<"Pages are required and must be non-empty", 0, 0>>)
  ELSE LET error == FirstError([n \in DOMAIN doc.pages.items |->
                                  PageError(doc.pages.items[n], n)])
       IN IF error = <<>> THEN Returned(TRUE) ELSE Threw(error)

\* ============================================================ crawled pages
ImgTeam == Img("/img/team.jpg", <<"Team">>, <<"photo">>, <<"Our", " ", "team">>)
ImgOffice == Img("/img/office.jpg", <<>>, <<>>, <<>>)
ImgCompanyLogo == Img("/img/brand.png", <<"Company", " ", "Logo">>, <<>>, <<>>)
ImgIconSmall == Img("/img/arrow.png", <<>>, <<"icon", "-small">>, <<>>)

DomHome ==
  Dom(<<"Home">>, <<"Welcome">>,
      <<H("h1", <<"Home">>), H("h2", <<" ", "News", " ">>)>>,
      << <<"Hello">>, <<" ">>, <<" ", "Second", " ", "paragraph", "\n">> >>,
      <<ImgTeam, ImgIconSmall, ImgOffice>>,
      <<A("/about", <<"Read", " ", "more">>, <<>>),
        A("/", <<"Home">>, <<"nav", "-link">>),
        A("/empty", <<" ">>, <<>>)>>,
      <<Ul(<< <<"one">>, <<" ", "two">> >>), Ul(<<>>)>>,
      FALSE)

DomAbout ==
  Dom(<<"About", " ", "Us">>, <<>>,
      <<H("h3", <<"Our", " ", "story">>)>>,
      << <<"We", " ", "care">> >>,
      <<ImgCompanyLogo, ImgTeam>>,
      <<>>, <<>>, FALSE)

DomUntitled ==
  Dom(<<>>, <<" ">>, <<H("h1", <<>>)>>, <<>>, <<>>, <<>>, <<>>, FALSE)

DomGallery ==
  Dom(<<"Gallery">>, <<"Photos">>, <<>>, <<>>, <<ImgOffice, ImgTeam>>,
      <<>>, <<Ul(<< <<"first">> >>)>>, FALSE)

DomBlank ==
  Dom(<<"Blank">>, <<>>, <<>>, <<>>, <<>>, <<>>, <<>>, FALSE)

DomThrows ==
  Dom(<<"Broken">>, <<>>, <<H("h1", <<"Broken">>)>>, << <<"Lost">> >>, <<>>,
      <<>>, <<>>, TRUE)

Doms == {DomHome, DomAbout, DomUntitled, DomGallery, DomBlank, DomThrows}

RawDocs == MkUrl("https:", "example.com", <<"/", "docs", "/">>, <<>>, <<>>)

\* The URLs of this.pages in insertion order; the seed comes first.
CrawledUrls == <<RawSiteSlash, RawAbout, RawDocs, RawAboutQuery>>

\* this.pages after a crawl, for every choice of what the pages hold.
PageMaps ==
  {[i \in DOMAIN doms |-> PageRecord(CrawledUrls[i], doms[i])] :
     doms \in SeqsUpTo(Doms, MaxSitePages)}

\* ============================================================== generateApp
\* One run of generateApp after another; the cache file and the repository
\* outlive a run. The position of a run is the statement it is about to
\* execute: "crawl", "convert", "load", "fallback", "fallbackConvert", "repo",
\* "normalize", "bundle", "commit"; "done" and "exit" end it.
GenUrlInputs == {RawSite, RawNoScheme}

\* crawlOptions for --depth 2 --max-pages 20
CrawlOptions == OptDepth2Pages20

\* argv.depth and argv.maxPages of that command line (the yargs defaults).
ArgvDepth == 2
ArgvMaxPages == 20

\* The environments a generate process is started in: nothing set, or the
\* two variables already holding what the command line asks for.
GenEnvInputs ==
  {EnvUnset, [MAX_CRAWL_DEPTH |-> ArgvDepth, MAX_PAGES |-> ArgvMaxPages]}

\* What crawlWebsite may leave in this.pages.
CrawlOutcomes ==
  {pm \in PageMaps :
     \A i \in DOMAIN pm : pm[i].html \in {DomHome, DomAbout, DomThrows}}

NoRun ==
  [pc |-> "idle", url |-> RawSite, forceRecrawl |-> FALSE, pageMap |-> <<>>,
   recorded |-> FALSE, bundle |-> <<>>, committed |-> FALSE, repo |-> <<>>,
   processEnv |-> EnvUnset, crawled |-> FALSE]

GenIdle == run = NoRun
DocIdle == siteData = <<>> /\ eddieDoc = <<>> /\ verdict = <<>>
FnIdle == fnIn = <<>> /\ fnOut = <<>>

\* Lines 446-514: argument handling, the cache gate, new URL(argv.url).
\* The process starts in the environment env; the transformer of line 506 is
\* constructed from it (maxDepth, maxPages), and lines 509-510 then assign
\* argv.depth and argv.maxPages to the environment of the process.
StartRun ==
  /\ run.pc \in {"idle", "done", "exit"}
  /\ \E raw \in GenUrlInputs, forceRecrawl \in BOOLEAN :
       LET gate == ShouldCrawl(store, raw, CrawlOptions, forceRecrawl, now)
           stops == ~gate.ok \/ ~CanParse(raw)
       IN run' = [NoRun EXCEPT
                    !.pc = IF stops THEN "exit"
                           ELSE IF gate.value THEN "crawl" ELSE "load",
                    !.url = raw,
                    !.forceRecrawl = forceRecrawl,
                    !.repo = run.repo,
                    !.processEnv =
                       IF stops THEN env
                       ELSE [MAX_CRAWL_DEPTH |-> ArgvDepth,
                             MAX_PAGES |-> ArgvMaxPages]]
  /\ siteData' = <<>> /\ eddieDoc' = <<>> /\ verdict' = <<>>
  /\ UNCHANGED cacheVars

\* Lines 520-522 and 561-563: crawlWebsite, transformAllPages and
\* downloadAssets; none of them throws, this.pages is what the crawl fetched.
CrawlSite ==
  /\ run.pc \in {"crawl", "fallback"}
  /\ \E pm \in CrawlOutcomes :
       run' = [run EXCEPT !.pageMap = pm,
                          !.crawled = TRUE,
                          !.pc = IF run.pc = "crawl" THEN "convert"
                                 ELSE "fallbackConvert"]
  /\ UNCHANGED <<cacheVars, docVars>>

\* Lines 525-537: convertToJSON, then recordCrawl.
ConvertAndRecord ==
  /\ run.pc = "convert"
  /\ LET converted == ConvertToJSON(run.pageMap, <<ParseUrl(run.url).hostname>>)
         m == [pagesCount |-> Len(converted.value.pages),
               assetsCount |-> Len(converted.value.assets),
               crawlDepth |-> 2]
         cache == LoadCache(store)
         key == GenerateCacheKey(run.url, CrawlOptions)
         saved == SaveCache(store,
                            Put(cache.entries, key,
                                CacheEntry(run.url, CrawlOptions, m, now)),
                            cacheWritable)
     IN IF converted.ok
        THEN /\ siteData' = <<converted.value>>
             /\ store' = IF cache.ok THEN saved.store ELSE store
             /\ run' = [run EXCEPT !.recorded = TRUE, !.pc = "repo"]
        ELSE /\ run' = [run EXCEPT !.pc = "exit"]
             /\ UNCHANGED <<siteData, store>>
  /\ UNCHANGED <<cacheWritable, now, lastCall, eddieDoc, verdict>>

\* Lines 538-560: site-data.json is fetched from the repository; any failure
\* falls back to crawling.
LoadCached ==
  /\ run.pc = "load"
  /\ \E fetched \in BOOLEAN :
       IF fetched /\ run.repo # <<>>
       THEN /\ siteData' = <<run.repo[1].siteData>>
            /\ run' = [run EXCEPT !.pc = "repo"]
       ELSE /\ run' = [run EXCEPT !.pc = "fallback"]
            /\ UNCHANGED siteData
  /\ UNCHANGED <<cacheVars, eddieDoc, verdict>>

\* Line 564: convertToJSON on the fallback path, with no recordCrawl.
FallbackConvert ==
  /\ run.pc = "fallbackConvert"
  /\ LET converted == ConvertToJSON(run.pageMap, <<ParseUrl(run.url).hostname>>)
     IN IF converted.ok
        THEN /\ siteData' = <<converted.value>>
             /\ run' = [run EXCEPT !.pc = "repo"]
        ELSE /\ run' = [run EXCEPT !.pc = "exit"]
             /\ UNCHANGED siteData
  /\ UNCHANGED <<cacheVars, eddieDoc, verdict>>

\* Lines 572-602: the repository is looked up or created; a GitHub error
\* other than 404 ends the run.
PrepareRepository ==
  /\ run.pc = "repo"
  /\ \E github \in BOOLEAN :
       run' = [run EXCEPT !.pc = IF github THEN "normalize" ELSE "exit"]
  /\ UNCHANGED <<cacheVars, docVars>>

\* Mutant: a validation error is logged and the run goes on.
AfterValidate_Ignore(result) == "bundle"

\* Line 613 and the catch of lines 809-812: a throw ends the run.
AfterValidate(result) == IF result.ok THEN "bundle" ELSE "exit"

\* Mutant: the document is not validated before it is written.
NormalizeAndValidate_Unchecked ==
  /\ run.pc = "normalize"
  /\ eddieDoc' = <<NormalizeToEddieSchema(siteData[1])>>
  /\ verdict' = <<Returned(TRUE)>>
  /\ run' = [run EXCEPT !.pc = "bundle"]
  /\ UNCHANGED <<cacheVars, siteData>>

\* Lines 608-615.
NormalizeAndValidate ==
  /\ run.pc = "normalize"
  /\ LET doc == NormalizeToEddieSchema(siteData[1])
         result == ValidateEddieDoc(doc)
     IN /\ eddieDoc' = <<doc>>
        /\ verdict' = <<result>>
        /\ run' = [run EXCEPT !.pc = AfterValidate(result)]
  /\ UNCHANGED <<cacheVars, siteData>>

\* Lines 617-705: the bundle is built in the temp directory; content.json is
\* the canonical document, site-data.json the crawl result.
WriteBundle ==
  /\ run.pc = "bundle"
  /\ \E fs \in BOOLEAN :
       run' = IF fs
              THEN [run EXCEPT !.pc = "commit",
                               !.bundle = <<[content |-> eddieDoc[1],
                                             siteData |-> siteData[1]]>>]
              ELSE [run EXCEPT !.pc = "exit"]
  /\ UNCHANGED <<cacheVars, docVars>>

\* Lines 707-771: tree, commit and ref update, then the temp directory is
\* removed.
Commit ==
  /\ run.pc = "commit"
  /\ \E github \in BOOLEAN :
       run' = IF github
              THEN [run EXCEPT !.pc = "done", !.committed = TRUE,
                               !.repo = run.bundle]
              ELSE [run EXCEPT !.pc = "exit"]
  /\ UNCHANGED <<cacheVars, docVars>>

\* Time passes between two runs.
BetweenRuns ==
  /\ run.pc \in {"done", "exit"}
  /\ Tick
  /\ UNCHANGED <<run, docVars>>

GenNext ==
  \/ StartRun
  \/ CrawlSite
  \/ ConvertAndRecord
  \/ LoadCached
  \/ FallbackConvert
  \/ PrepareRepository
  \/ NormalizeAndValidate
  \/ WriteBundle
  \/ Commit
  \/ BetweenRuns

\* ---------------------------------------------------- generateApp properties
\* C11 (as claimed): recordCrawl is invoked only by a run whose crawl fetched
\* at least one page, so no run is sent down the skip-crawl path by an entry
\* that a zero-page crawl left.
C11_RecordOnlyAfterSuccessfulCrawl ==
  /\ run.recorded => Len(run.pageMap) > 0
  /\ \A k \in DOMAIN store.entries : store.entries[k].metadata.pagesCount > 0

\* C12: when validateEddieDoc throws, the run ends with no content.json
\* written and nothing committed; a bundle is written or committed only after
\* validation passed, and the document in the repository is always a valid one.
C12_NothingWrittenUnlessValid ==
  /\ (verdict # <<>> /\ ~verdict[1].ok) =>
       (run.pc = "exit" /\ run.bundle = <<>> /\ ~run.committed)
  /\ (run.bundle # <<>> \/ run.committed) => (verdict # <<>> /\ verdict[1].ok)
  /\ run.repo # <<>> => ValidateEddieDoc(run.repo[1].content).ok

\* A run of a zero-page crawl has failed validation and exited.
C12_Witness ==
  /\ run.pc = "exit"
  /\ verdict # <<>> /\ ~verdict[1].ok
  /\ eddieDoc[1].pages.items = <<>>
  /\ run.bundle = <<>>

\* ================================================== validateEddieDoc alone
SectionOf(type) == [type |-> type]
DocPage(slug, title, sections) ==
  [slug |-> slug, title |-> title, hero |-> <<>>, sections |-> sections]

PageGood ==
  DocPage(<<"index", ".", "html">>, <<"Home">>,
          JsArray(<<SectionOf("heading"), SectionOf("paragraph"),
                    SectionOf("image"), SectionOf("gallery")>>))
PageAllTypes ==
  DocPage(<<"about", ".", "html">>, <<"About">>,
          JsArray(<<SectionOf("list"), SectionOf("quote"), SectionOf("button"),
                    SectionOf("html")>>))
PageNoSections == DocPage(<<"empty", ".", "html">>, <<"Empty">>, JsArray(<<>>))
PageNoSlug == DocPage(<<>>, <<"Home">>, JsArray(<<SectionOf("video")>>))
PageNoTitle == DocPage(<<"index", ".", "html">>, <<>>, JsArray(<<SectionOf("heading")>>))
PageSectionsMissing == DocPage(<<"index", ".", "html">>, <<"Home">>, JsUndefined)
PageSectionsObject == DocPage(<<"index", ".", "html">>, <<"Home">>, JsObject)
PageVideo ==
  DocPage(<<"index", ".", "html">>, <<"Home">>,
          JsArray(<<SectionOf("heading"), SectionOf("video"), SectionOf("")>>))
PageUntyped ==
  DocPage(<<"index", ".", "html">>, <<"Home">>,
          JsArray(<<SectionOf(""), SectionOf("video")>>))

DocPages ==
  {PageGood, PageAllTypes, PageNoSections, PageNoSlug, PageNoTitle,
   PageSectionsMissing, PageSectionsObject, PageVideo, PageUntyped}

SiteOf(kind, title) ==
  [kind |-> kind, title |-> title, description |-> <<>>, brandSeed |-> "#5F6FFF",
   logo |-> <<>>]

NavItem == [title |-> <<"Home">>, slug |-> <<"index", ".", "html">>]

DocInputs ==
  [version : {"1.0", "2.0", ""},
   site : {SiteOf("object", <<"Site">>), SiteOf("object", <<>>),
           SiteOf("undefined", <<>>)},
   nav : {JsArray(<<NavItem>>), JsArray(<<>>), JsUndefined, JsObject},
   pages : {JsArray(ps) : ps \in SeqsUpTo(DocPages, MaxDocPages)}
             \cup {JsUndefined, JsObject}]

ValidateInit ==
  /\ eddieDoc \in {<<doc>> : doc \in DocInputs}
  /\ siteData = <<>>
  /\ verdict = <<>>

\* validateEddieDoc(eddieDoc)
ValidateCall ==
  /\ eddieDoc # <<>>
  /\ verdict = <<>>
  /\ verdict' = <<ValidateEddieDoc(eddieDoc[1])>>
  /\ UNCHANGED <<siteData, eddieDoc>>

\* The eight recognized section tags.
RecognizedTags ==
  {"heading", "paragraph", "image", "gallery", "list", "quote", "button", "html"}

PageIsValid(page) ==
  /\ page.slug # <<>>
  /\ page.title # <<>>
  /\ page.sections.kind = "array"
  /\ \A j \in DOMAIN page.sections.items :
       page.sections.items[j].type \in RecognizedTags

SiteNavPagesPresent(doc) ==
  /\ doc.version = "1.0"
  /\ doc.site.kind = "object" /\ doc.site.title # <<>>
  /\ doc.nav.kind = "array" /\ doc.nav.items # <<>>
  /\ doc.pages.kind = "array" /\ doc.pages.items # <<>>

DocIsValid(doc) ==
  /\ SiteNavPagesPresent(doc)
  /\ \A n \in DOMAIN doc.pages.items : PageIsValid(doc.pages.items[n])

\* The first page in document order that is not valid, and the first section
\* of it with a type outside the recognized set (0 when the page itself lacks
\* a field).
FirstOffendingPage(doc) ==
  CHOOSE n \in DOMAIN doc.pages.items :
    /\ ~PageIsValid(doc.pages.items[n])
    /\ \A m \in 1..(n - 1) : PageIsValid(doc.pages.items[m])

FirstOffendingSection(page) ==
  IF page.slug = <<>> \/ page.title = <<>> \/ page.sections.kind # "array" THEN 0
  ELSE CHOOSE j \in DOMAIN page.sections.items :
         /\ page.sections.items[j].type \notin RecognizedTags
         /\ \A i \in 1..(j - 1) : page.sections.items[i].type \in RecognizedTags

\* C13: validateEddieDoc returns true exactly on the documents that satisfy
\* every invariant, and otherwise throws; when the failure lies in a page, the
\* error names the first offending page and section in document order. A
\* document with pages: [] or with a section of an unrecognized type is
\* rejected.
C13_ValidatesExactlyTheSchema ==
  verdict # <<>> =>
    LET doc == eddieDoc[1]
        result == verdict[1]
    IN /\ result.ok <=> DocIsValid(doc)
       /\ result.ok => result.value = TRUE
       /\ (~result.ok /\ SiteNavPagesPresent(doc)) =>
            LET n == FirstOffendingPage(doc)
            IN /\ result.value[2] = n
               /\ result.value[3] = FirstOffendingSection(doc.pages.items[n])

\* A valid first page is followed by one whose second section has an
\* unrecognized type, and the error names page 2, section 2.
C13_Witness ==
  /\ verdict # <<>>
  /\ ~verdict[1].ok
  /\ eddieDoc[1].pages.items = <<PageGood, PageVideo>>
  /\ verdict[1].value = <<"has invalid type", 2, 2>>

\* ============================================ convert, normalize, validate
\* this.domain of the crawled site
SiteHost == <<"example.com">>

\* A site-data.json in which every page has lost its title and its path.
WithoutTitleAndPath(data) ==
  [data EXCEPT !.pages =
     [i \in DOMAIN data.pages |->
        [data.pages[i] EXCEPT !.title = <<>>, !.path = <<>>]]]

ContentInit ==
  /\ fnIn \in PageMaps
  /\ fnOut = <<>>
  /\ DocIdle

\* siteData = transformer.convertToJSON()
ConvertCall ==
  /\ fnOut = <<>> /\ siteData = <<>>
  /\ LET converted == ConvertToJSON(fnIn, SiteHost)
     IN /\ fnOut' = <<converted>>
        /\ siteData' = IF converted.ok THEN <<converted.value>> ELSE <<>>
  /\ UNCHANGED <<fnIn, eddieDoc, verdict>>

\* siteData = response.data: the site-data.json of the repository, written by
\* an earlier run from the same pages and edited since.
LoadSiteData ==
  /\ fnOut = <<>> /\ siteData = <<>>
  /\ ConvertToJSON(fnIn, SiteHost).ok
  /\ siteData' = <<WithoutTitleAndPath(ConvertToJSON(fnIn, SiteHost).value)>>
  /\ UNCHANGED <<fnVars, eddieDoc, verdict>>

\* eddieDoc = await normalizeToEddieSchema(siteData)
NormalizeCall ==
  /\ siteData # <<>> /\ eddieDoc = <<>>
  /\ eddieDoc' = <<NormalizeToEddieSchema(siteData[1])>>
  /\ UNCHANGED <<fnVars, siteData, verdict>>

ContentNext ==
  \/ ConvertCall
  \/ LoadSiteData
  \/ NormalizeCall
  \/ ValidateCall /\ UNCHANGED fnVars

\* ------------------------------------------------------ content properties
HasHeading(data) ==
  \E i \in DOMAIN data.pages : Len(data.pages[i].content.headings) > 0

\* C14: validateEddieDoc accepts the normalized form of every crawl result
\* that has a page with a heading, pages with an empty title or path
\* included, and every section normalizeToEddieSchema emits has a recognized
\* type.
C14_NormalizedDocumentValidates ==
  /\ (verdict # <<>> /\ HasHeading(siteData[1])) =>
       (verdict[1].ok /\ verdict[1].value = TRUE)
  /\ eddieDoc # <<>> =>
       \A n \in DOMAIN eddieDoc[1].pages.items :
         \A j \in DOMAIN eddieDoc[1].pages.items[n].sections.items :
           eddieDoc[1].pages.items[n].sections.items[j].type \in RecognizedTags

\* The document of a site whose only page has headings but neither title nor
\* path has been validated.
C14_Witness ==
  /\ verdict # <<>> /\ verdict[1].ok
  /\ Len(siteData[1].pages) = 1
  /\ siteData[1].pages[1].title = <<>> /\ siteData[1].pages[1].path = <<>>
  /\ Len(siteData[1].pages[1].content.headings) = 2
  /\ eddieDoc[1].pages.items[1].slug = <<"page", "-", "1">>

\* What is compared of a section: its type and what it carries.
Carried(section) ==
  CASE section.type = "heading" -> <<"heading", section.level, section.text>>
    [] section.type = "paragraph" -> <<"paragraph", section.text>>
    [] section.type = "image" -> <<"image", section.src>>
    [] section.type = "gallery" -> <<"gallery", section.items>>
    [] section.type = "button" -> <<"button", section.href, section.text>>
    [] section.type = "list" -> <<"list", section.items>>

\* The sections the claim lists for a page of the crawl result, in its order.
ClaimedSections(page) ==
  LET content == page.content
      linked == SelectSeq(content.links, LAMBDA link :
                  link.href # "" /\ link.text # <<>>)
      filled == SelectSeq(content.lists, LAMBDA list : Len(list.items) >= 1)
  IN <<  <<"heading", 1, page.title>>  >>
       \o (IF Len(content.images) >= 1
           THEN << <<"image", content.images[1].src>> >> ELSE <<>>)
       \o (IF Trim(page.description) # <<>>
           THEN << <<"paragraph", page.description>> >> ELSE <<>>)
       \o [i \in DOMAIN content.headings |->
             <<"heading", content.headings[i].level, content.headings[i].text>>]
       \o [i \in DOMAIN content.paragraphs |->
             <<"paragraph", content.paragraphs[i].chars>>]
       \o (IF Len(content.images) > 1
           THEN << <<"gallery", [i \in DOMAIN content.images |->
                                   content.images[i].src]>> >>
           ELSE <<>>)
       \o [i \in DOMAIN linked |-> <<"button", linked[i].href, linked[i].text>>]
       \o [i \in DOMAIN filled |-> <<"list", filled[i].items>>]

\* C15 (as claimed): every normalized page carries exactly the listed
\* sections in the listed order, the extracted paragraphs among them, and has
\* a hero exactly when the page has an image.
C15_SectionsInClaimedOrder ==
  (fnOut # <<>> /\ eddieDoc # <<>>) =>
    \A n \in DOMAIN siteData[1].pages :
      LET page == siteData[1].pages[n]
          out == eddieDoc[1].pages.items[n]
      IN /\ [j \in DOMAIN out.sections.items |-> Carried(out.sections.items[j])]
              = ClaimedSections(page)
         /\ (out.hero # <<>>) <=> (Len(page.content.images) >= 1)

RECURSIVE IsSubsequence(_, _)
IsSubsequence(s, t) ==
  IF s = <<>> THEN TRUE
  ELSE IF t = <<>> THEN FALSE
  ELSE IF Head(s) = Head(t) THEN IsSubsequence(Tail(s), Tail(t))
  ELSE IsSubsequence(s, Tail(t))

\* C16 (as claimed): the texts extractParagraphs produced for a page all
\* appear, in extraction order, as the texts of paragraph sections of the
\* normalized page.
C16_EveryParagraphNormalized ==
  (fnOut # <<>> /\ eddieDoc # <<>>) =>
    \A n \in DOMAIN fnIn :
      LET sections == eddieDoc[1].pages.items[n].sections.items
          paragraphs == SelectSeq(sections, LAMBDA s : s.type = "paragraph")
      IN IsSubsequence(ExtractParagraphs(fnIn[n].html),
                       [j \in DOMAIN paragraphs |-> paragraphs[j].text])

\* The content of a page whose extraction failed.
EmptyContent ==
  [headings |-> <<>>, paragraphs |-> <<>>, images |-> <<>>, links |-> <<>>,
   lists |-> <<>>]

\* C20 (as claimed): convertToJSON returns even when the extraction of a page
\* throws; the result has every page, the failing ones with empty content and
\* the others with their extracted content.
C20_ExtractionFailureIsLocal ==
  fnOut # <<>> =>
    /\ fnOut[1].ok
    /\ Len(fnOut[1].value.pages) = Len(fnIn)
    /\ \A n \in DOMAIN fnIn :
         fnOut[1].value.pages[n].content =
           IF fnIn[n].html.throws THEN EmptyContent
           ELSE ExtractContent(fnIn[n].html)

\* ================================================== computeBrandSeed alone
BayouArtsOrg == <<"bayou", "art", "s.org">>
BayouArtsCouncil == <<"Bayou", " ", "Art", "s", " ", "Council">>

SeedDomains ==
  {BayouArtsOrg, <<"example.com">>, <<"my", "school", ".edu">>,
   <<"TECH", "corp.io">>, <<"health", "care", ".org">>}
SeedTitles ==
  {BayouArtsCouncil, <<"Company", " ", "News">>, <<>>,
   <<"Sm", "art", " ", "Homes">>, <<"Hello">>}
SeedDescriptions ==
  {<<>>, <<"A", " ", "digital", " ", "museum">>,
   <<"medical", " ", "software">>, <<"plain">>}

SeedInit ==
  /\ fnIn \in [domain : SeedDomains, title : SeedTitles,
               description : SeedDescriptions]
  /\ fnOut = <<>>

\* The call is made twice with the same arguments.
ComputeBrandSeedCall ==
  /\ fnOut = <<>>
  /\ fnOut' = <<ComputeBrandSeed(fnIn.domain, fnIn.title, fnIn.description),
                ComputeBrandSeed(fnIn.domain, fnIn.title, fnIn.description)>>
  /\ UNCHANGED fnIn

\* The theme groups in the order of the claim, with their colors.
ThemeKeywords ==
  <<ArtsKeywords, BusinessKeywords, EducationKeywords, HealthKeywords,
    TechKeywords>>
ThemeColors == <<"#9C27B0", "#2196F3", "#4CAF50", "#E91E63", "#FF9800">>
DefaultBlue == "#5F6FFF"

\* C17: computeBrandSeed is deterministic and returns the color of the first
\* theme group, in the order arts, business, education, health, tech, that
\* has a keyword in the lowercased "domain title description", the default
\* blue when none has; bayouarts.org / Bayou Arts Council gives #9C27B0.
C17_FirstMatchingThemeWins ==
  fnOut # <<>> =>
    LET content == LowerCase(fnIn.domain \o <<" ">> \o fnIn.title \o <<" ">>
                               \o fnIn.description)
        matching == {g \in DOMAIN ThemeKeywords :
                       \E k \in ThemeKeywords[g] : Includes(content, <<k>>)}
    IN /\ fnOut[1] = fnOut[2]
       /\ fnOut[1] = IF matching = {} THEN DefaultBlue
                     ELSE ThemeColors[CHOOSE g \in matching :
                                        \A h \in matching : g <= h]
       /\ (fnIn.domain = BayouArtsOrg /\ fnIn.title = BayouArtsCouncil) =>
            fnOut[1] = "#9C27B0"

\* bayouarts.org with a title that also matches the business group is purple.
C17_Witness ==
  /\ fnOut # <<>>
  /\ fnIn.domain = BayouArtsOrg
  /\ fnIn.title = <<"Company", " ", "News">>
  /\ fnOut[1] = "#9C27B0"

\* ========================================================= urlToPath alone
PathInputs ==
  {<<>>, <<"/">>, <<"/", "about">>, <<"/", "about", "/">>,
   <<"/", "about", ".", "html">>, <<"/", "my", " ", "page">>,
   <<"/", "a", "&", "b">>, <<"/", "v1", ".", "2", "/", "about">>,
   <<"/", "docs", "/", "intro">>, <<"/", "img", "/", "photo", ".", "png">>,
   <<"/", "~", "user">>, <<"/", "a", "+", "b">>, <<"/", "/">>,
   <<"/", "caf", "%", "C3", "%", "A9">>}

UrlInputs ==
  {MkUrl(protocol, "example.com", pathname, search, hash) :
     protocol \in {"https:", ""}, pathname \in PathInputs,
     search \in {<<>>, <<"?", "q", "=", "1", "&", "r", "=", "a", " ", "b">>},
     hash \in {<<>>, <<"#", "top">>}}

PathInit ==
  /\ fnIn \in UrlInputs
  /\ fnOut = <<>>

\* The call is made twice with the same argument.
UrlToPathCall ==
  /\ fnOut = <<>>
  /\ fnOut' = <<UrlToPath(fnIn), UrlToPath(fnIn)>>
  /\ UNCHANGED fnIn

\* The last segment of a path, a trailing slash set aside.
RECURSIVE LastSegment(_)
LastSegment(path) ==
  IF path = <<>> THEN <<>>
  ELSE IF path[Len(path)] = "/" /\ Len(path) > 1 /\ path[Len(path) - 1] # "/"
       THEN LastSegment(SubSeq(path, 1, Len(path) - 1))
  ELSE IF ~Includes(path, <<"/">>) THEN path
  ELSE LastSegment(Tail(path))

IsRoot(pathname) == pathname = <<>> \/ pathname = <<"/">>
HasExtension(pathname) == Includes(LastSegment(pathname), <<".">>)
EndsWithHtml(path) ==
  Len(path) >= 2 /\ SubSeq(path, Len(path) - 1, Len(path)) = <<".", "html">>

\* C18 (as claimed): urlToPath is deterministic, its result has no '?', '&'
\* or space, the site root gives index.html, and a path without an extension
\* gets .html appended.
C18_FilesystemSafePath ==
  fnOut # <<>> =>
    /\ fnOut[1] = fnOut[2]
    /\ \A i \in DOMAIN fnOut[1] : fnOut[1][i] \notin {"?", "&", " "}
    /\ (CanParse(fnIn) /\ IsRoot(fnIn.pathname)) => fnOut[1] = IndexHtml
    /\ (CanParse(fnIn) /\ ~IsRoot(fnIn.pathname) /\ ~HasExtension(fnIn.pathname))
         => EndsWithHtml(fnOut[1])

\* ====================================================== extractImages alone
ImgUpperClass == Img("/img/hero.png", <<>>, <<"Icon", "-large">>, <<>>)
ImgUpperAltIcon == Img("/img/map.png", <<"ICON">>, <<>>, <<>>)
ImgAltDecoration == Img("/img/divider.png", <<"decoration">>, <<>>, <<>>)
ImgClassDecoration == Img("/img/frame.png", <<>>, <<"decoration">>, <<>>)
ImgNoSrc == Img("", <<"Team">>, <<>>, <<>>)

ImageElements ==
  {ImgTeam, ImgOffice, ImgCompanyLogo, ImgIconSmall, ImgUpperClass,
   ImgUpperAltIcon, ImgAltDecoration, ImgClassDecoration, ImgNoSrc}

ImagesInit ==
  /\ fnIn \in SeqsUpTo(ImageElements, MaxImages)
  /\ fnOut = <<>>

\* extractImages on a page whose <img> elements are fnIn.
ExtractImagesCall ==
  /\ fnOut = <<>>
  /\ fnOut' = <<ExtractImages([img |-> fnIn])>>
  /\ UNCHANGED fnIn

DecorativeTokens == {"icon", "logo", "decoration"}

\* class or alt contains one of the tokens, letter case set aside.
IsDecorative(el) ==
  \E token \in DecorativeTokens :
    \/ Includes(LowerCase(el.class), <<token>>)
    \/ Includes(LowerCase(el.alt), <<token>>)

\* C19 (as claimed): every image in the extracted list comes from an <img>
\* whose class and alt contain none of icon, logo, decoration in any letter
\* case.
C19_NoDecorativeImage ==
  fnOut # <<>> =>
    \A i \in DOMAIN fnOut[1] :
      \A k \in DOMAIN fnIn :
        fnIn[k].src = fnOut[1][i].src => ~IsDecorative(fnIn[k])

\* ===================================================== limits of a generate run
\* C21 (as claimed): the transformer that crawls in a generate run holds
\* maxDepth = argv.depth and maxPages = argv.maxPages, the values the run
\* wrote to its environment, during the whole crawl.
C21_CrawlHoldsArgvLimits ==
  run.pc \in {"crawl", "fallback", "convert", "fallbackConvert"} =>
    /\ maxDepth = run.processEnv.MAX_CRAWL_DEPTH
    /\ maxPages = run.processEnv.MAX_PAGES

\* C22: a run whose crawl fetched zero pages can only end by exiting with an
\* error: it never reaches the bundle or the commit, the document it
\* normalizes does not validate, it writes no bundle and commits nothing.
C22_ZeroPageRunFails ==
  (run.crawled /\ run.pageMap = <<>>) =>
    /\ run.pc \in {"convert", "fallbackConvert", "repo", "normalize", "exit"}
    /\ eddieDoc # <<>> => (verdict # <<>> /\ ~verdict[1].ok)
    /\ run.bundle = <<>>
    /\ ~run.committed

\* A zero-page crawl has exited on the validation error while the repository
\* still holds the bundle an earlier run committed.
C22_Witness ==
  /\ run.crawled /\ run.pageMap = <<>>
  /\ run.pc = "exit"
  /\ verdict # <<>> /\ ~verdict[1].ok
  /\ run.repo # <<>>

\* ============================================== cleanCache and getCacheStats
\* What cleanCache must have done in a step: the entries older than
\* maxAgeHours are gone, the others are what they were, the result counts
\* the entries that went.
CleanCacheDeletedOld ==
  LET before == LoadCache(store).entries
      after == LoadCache(store').entries
      old == {k \in DOMAIN before :
                now - before[k].timestamp > lastCall'.arg}
  IN /\ lastCall'.ok
     /\ DOMAIN after = DOMAIN before \ old
     /\ \A k \in DOMAIN after : after[k] = before[k]
     /\ lastCall'.value = Cardinality(DOMAIN before \ DOMAIN after)

\* C23 (as claimed): cleanCache deletes exactly the entries older than
\* maxAgeHours, leaves the others unchanged and returns the number it
\* deleted; getCacheStats never changes the store.
C23_CleanCacheDeletesExactlyOld ==
  [][/\ lastCall'.op = "cleanCache" => CleanCacheDeletedOld
     /\ lastCall'.op = "getCacheStats" => store' = store]_vars

\* C23 (amended): the same when the store can be written; when it cannot,
\* cleanCache leaves the store as it was and returns the number of entries
\* older than maxAgeHours.  getCacheStats never changes the store.
C23_CleanCacheDeletesOldWhenWritable ==
  [][/\ lastCall'.op = "cleanCache" =>
          /\ cacheWritable => CleanCacheDeletedOld
          /\ ~cacheWritable =>
               /\ lastCall'.ok
               /\ store' = store
               /\ lastCall'.value =
                    Cardinality({k \in DOMAIN LoadCache(store).entries :
                                   now - store.entries[k].timestamp > lastCall'.arg})
     /\ lastCall'.op = "getCacheStats" => store' = store]_vars

\* cleanCache has just deleted an entry from a writable store and kept a
\* younger one whose age is exactly maxAgeHours.
C23_Witness ==
  /\ lastCall.op = "cleanCache"
  /\ lastCall.writable
  /\ lastCall.value > 0
  /\ \E k \in DOMAIN store.entries : now - store.entries[k].timestamp = lastCall.arg

\* ========================================================= more of the crawl
\* C24 (as claimed): at most one browser launched by crawlWebsite is open,
\* and none is open when the fetch of a URL begins, whether the fetches
\* before it succeeded or failed.
C24_OneBrowserAtATime ==
  /\ openBrowsers <= 1
  /\ (crawlStatus = "running" /\ Top.pc = "launch") => openBrowsers = 0

\* C25 (as claimed): a crawl configured with MAX_CRAWL_DEPTH = 0 fetches only
\* the seed URL and records no page at depth 1 or deeper.
C25_DepthZeroFetchesOnlySeed ==
  env.MAX_CRAWL_DEPTH = 0 =>
    /\ \A k \in EventsOf("fetch") : events[k][2] = SeedUrl
    /\ \A k \in 1..Len(pages) : pages[k].depth = 0

\* C28: the keys of the page table are visited URLs and
\* |pages| <= |visitedUrls| <= maxPages; a URL whose fetch failed is visited,
\* is not in the page table and was fetched once only; a call that returns at
\* the depth or page limit leaves the visited set as it was.
C28_TableWithinVisited ==
  /\ PageUrls \subseteq visitedUrls
  /\ Len(pages) <= Cardinality(visitedUrls)
  /\ Cardinality(visitedUrls) <= maxPages
  /\ \A k \in EventsOf("fetch-failed") :
       /\ events[k][2] \in visitedUrls
       /\ events[k][2] \notin PageUrls
       /\ Cardinality({f \in EventsOf("fetch") : events[f][2] = events[k][2]}) = 1

C28_SkippedNotVisited ==
  (/\ crawlStatus = "running"
   /\ Top.pc = "enter"
   /\ OverLimit(Top.depth, visitedUrls)) => visitedUrls' = visitedUrls

C30_SeedFirstParentsAbove ==
  /\ \A k \in 1..Len(pages) :
       IF pages[k].url = SeedUrl
       THEN k = 1 /\ pages[k].depth = 0
       ELSE /\ pages[k].depth >= 1
            /\ \E j \in 1..(k - 1) : pages[j].depth = pages[k].depth - 1
  /\ \A k \in 2..Len(stack) :
       /\ stack[k].depth = stack[k - 1].depth + 1
       /\ \E j \in 1..Len(pages) :
            pages[j] = [url |-> stack[k - 1].url, depth |-> stack[k - 1].depth]
  /\ (\E k \in EventsOf("fetch-failed") : events[k][2] = SeedUrl) => pages = <<>>

C30_CalledForALinkOfTheCaller ==
  (stack # <<>> /\ Len(stack') = Len(stack) + 1) =>
    /\ Top.links # <<>>
    /\ stack'[Len(stack')].url = Head(Top.links)
    /\ stack'[Len(stack')].depth = Top.depth + 1
    /\ [url |-> Top.url, depth |-> Top.depth] \in {pages[j] : j \in 1..Len(pages)}

ImgBanner == Img("https://cdn.example.net/banner.jpg", <<"Banner">>, <<>>, <<>>)
AssetImages == {ImgTeam, ImgOffice, ImgCompanyLogo, ImgIconSmall, ImgBanner, ImgNoSrc}

\* The href of a src that is an absolute URL.
AbsoluteHref ==
  "https://cdn.example.net/banner.jpg" :>
    <<"https:", "//", "cdn.example.net", "/banner.jpg">>

\* new URL(src, url).href for the root-relative and absolute src values above.
AssetHref(src, raw) ==
  IF src \in DOMAIN AbsoluteHref THEN AbsoluteHref[src]
  ELSE <<ParseUrl(raw).protocol, "//", ParseUrl(raw).hostname, src>>

\* path.extname(url).toLowerCase()
ExtName(href) ==
  LET last == href[Len(href)]
  IN IF last \in {"/img/team.jpg", "/img/office.jpg", "/banner.jpg"} THEN ".jpg"
     ELSE IF last \in {"/img/brand.png", "/img/arrow.png"} THEN ".png"
     ELSE ""

GetAssetType(href) ==
  LET ext == ExtName(href)
  IN IF ext \in {".css"} THEN "css"
     ELSE IF ext \in {".js"} THEN "js"
     ELSE IF ext \in {".png", ".jpg", ".jpeg", ".gif", ".svg", ".webp"} THEN "image"
     ELSE IF ext \in {".woff", ".woff2", ".ttf", ".eot"} THEN "font"
     ELSE "other"

\* Set.prototype.add on a Set kept in insertion order.
SetAdd(seq, x) ==
  IF \E i \in DOMAIN seq : seq[i] = x THEN seq ELSE Append(seq, x)

\* The first loop of downloadAssets on one page: every img[src] whose href
\* includes the domain is added to assetUrls.
RECURSIVE CollectFromImages(_, _, _, _)
CollectFromImages(assetUrls, imgs, raw, host) ==
  IF imgs = <<>> THEN assetUrls
  ELSE LET el == Head(imgs)
           href == AssetHref(el.src, raw)
           next == IF el.src # "" /\ Includes(href, <<host>>)
                   THEN SetAdd(assetUrls, href) ELSE assetUrls
       IN CollectFromImages(next, Tail(imgs), raw, host)

RECURSIVE CollectAssetUrls(_, _, _)
CollectAssetUrls(assetUrls, pageMap, host) ==
  IF pageMap = <<>> THEN assetUrls
  ELSE CollectAssetUrls(
         CollectFromImages(assetUrls, Head(pageMap).img, Head(pageMap).url, host),
         Tail(pageMap), host)

\* this.pages for downloadAssets: the site root with the images drawn, and
\* the about page with two photos.
AssetsInit ==
  /\ \E imgs \in SeqsUpTo(AssetImages, MaxImages) :
       fnIn = <<[url |-> RawSiteSlash, img |-> imgs],
                [url |-> RawAbout, img |-> <<ImgOffice, ImgTeam>>]>>
  /\ fnOut = <<>>

\* downloadAssets: the URLs are collected, then each is requested in turn;
\* a request that fails is logged and leaves no entry in this.assets.
DownloadAssetsCall ==
  /\ fnOut = <<>>
  /\ LET assetUrls == CollectAssetUrls(<<>>, fnIn, SiteHost[1])
     IN \E failed \in SUBSET (DOMAIN assetUrls) :
          LET got == SelectSeq([i \in DOMAIN assetUrls |-> <<i, assetUrls[i]>>],
                               LAMBDA r : r[1] \notin failed)
          IN fnOut' = <<[requests |-> assetUrls,
                         failed |-> {assetUrls[i] : i \in failed},
                         assets |-> [i \in DOMAIN got |->
                                       [url |-> got[i][2],
                                        type |-> GetAssetType(got[i][2])]]]>>
  /\ UNCHANGED fnIn

\* The hrefs of the <img src> elements of the pages that extractImages
\* leaves out as decorative.
DecorativeHrefs ==
  UNION {{AssetHref(fnIn[p].img[k].src, fnIn[p].url) :
            k \in {j \in DOMAIN fnIn[p].img :
                     /\ fnIn[p].img[j].src # ""
                     /\ ~IsContentImage(fnIn[p].img[j])}} :
         p \in DOMAIN fnIn}

\* C26 (as claimed): no image the decorative filter excludes is requested or
\* entered in the asset table, no asset is a CSS, JS or font file, no URL is
\* requested twice, and the asset table holds exactly the requested URLs
\* whose download did not fail.
C26_OnlyContentImagesDownloaded ==
  fnOut # <<>> =>
    LET out == fnOut[1]
    IN /\ \A i \in DOMAIN out.requests : out.requests[i] \notin DecorativeHrefs
       /\ \A i \in DOMAIN out.assets :
            /\ out.assets[i].url \notin DecorativeHrefs
            /\ out.assets[i].type \notin {"css", "js", "font"}
       /\ \A i, j \in DOMAIN out.requests :
            out.requests[i] = out.requests[j] => i = j
       /\ {out.assets[i].url : i \in DOMAIN out.assets}
            = {out.requests[i] : i \in DOMAIN out.requests} \ out.failed

\* ======================================================== updateRepositories
\* What listRepositories returns, and what extractOriginalUrl can find for
\* the first repository: nothing, its URL, or the URL it has moved to.
RepoNames == <<"site-a", "site-b">>
NoUrl == <<>>
UrlOptions == {NoUrl, <<"https://a.example">>, <<"https://a.example/new">>}

\* What a call meets at each repository: the URL found and whether the
\* transformation or the push fails.
UpdatePlans ==
  {[r \in {RepoNames[i] : i \in DOMAIN RepoNames} |->
      IF r = RepoNames[1] THEN first
      ELSE [url |-> <<"https://b.example">>, fails |-> fails]] :
     first \in [url : UrlOptions, fails : BOOLEAN], fails \in BOOLEAN}

CooldownHours == 24

EmptyLog == [r \in {} |-> 0]
UpdateIdle == updateLog = EmptyLog /\ results = <<>>

\* !lastUpdate is the entry being absent; the entry of a failed update has
\* no originalUrl.
ShouldUpdate(log, repo, originalUrl, clock) ==
  IF repo \notin DOMAIN log THEN TRUE
  ELSE IF clock - log[repo].lastUpdated < CooldownHours THEN FALSE
  ELSE IF log[repo].originalUrl # originalUrl THEN TRUE
  ELSE IF log[repo].status = "error" THEN TRUE
  ELSE FALSE

LogSet(log, repo, entry) ==
  [r \in DOMAIN log \cup {repo} |-> IF r = repo THEN entry ELSE log[r]]

\* One iteration of the loop over the repositories: [log, res] after it.
\* fails: transformWebsite or updateRepository throws.
UpdateOne(acc, repo, originalUrl, fails, force, clock) ==
  IF originalUrl = NoUrl
  THEN [acc EXCEPT !.res.skipped = Append(@, [repo |-> repo, reason |-> "No original URL found"])]
  ELSE IF ~(force \/ ShouldUpdate(acc.log, repo, originalUrl, clock))
  THEN [acc EXCEPT !.res.skipped = Append(@, [repo |-> repo, reason |-> "Already up to date"])]
  ELSE IF fails
  THEN [log |-> LogSet(acc.log, repo,
                       [lastUpdated |-> clock, originalUrl |-> NoUrl, status |-> "error"]),
        res |-> [acc.res EXCEPT !.errors = Append(@, repo)]]
  ELSE [log |-> LogSet(acc.log, repo,
                       [lastUpdated |-> clock, originalUrl |-> originalUrl,
                        status |-> "success"]),
        res |-> [acc.res EXCEPT !.updated = Append(@, repo)]]

RECURSIVE UpdateAll(_, _, _, _, _)
UpdateAll(acc, repos, plan, force, clock) ==
  IF repos = <<>> THEN acc
  ELSE UpdateAll(UpdateOne(acc, Head(repos), plan[Head(repos)].url,
                           plan[Head(repos)].fails, force, clock),
                 Tail(repos), plan, force, clock)

\* updateRepositories(force).  The log is saved after the loop, and a log
\* that cannot be written stays as it was; when listRepositories throws, the
\* call throws.
UpdateRepositoriesCall ==
  /\ \/ \E force \in BOOLEAN, saved \in BOOLEAN, plan \in UpdatePlans :
          LET done == UpdateAll([log |-> updateLog,
                                 res |-> [updated |-> <<>>, skipped |-> <<>>,
                                          errors |-> <<>>]],
                                RepoNames, plan, force, now)
          IN /\ updateLog' = IF saved THEN done.log ELSE updateLog
             /\ results' = <<Returned([force |-> force, plan |-> plan,
                                       updated |-> done.res.updated,
                                       skipped |-> done.res.skipped,
                                       errors |-> done.res.errors])>>
     \/ /\ results' = <<Threw("Bulk update failed")>>
        /\ UNCHANGED updateLog
  /\ UNCHANGED cacheVars

\* Time passes between two calls.
UpdateTick == Tick /\ results' = <<>> /\ UNCHANGED updateLog

UpdateNext == UpdateRepositoriesCall \/ UpdateTick

\* ------------------------------------------------- properties of the update
InList(repo, list) == \E i \in DOMAIN list : list[i] = repo
SkippedRepos(res) == [i \in DOMAIN res.skipped |-> res.skipped[i].repo]

\* The verdict on one repository in the result of a call.
Attempted(res, repo) == InList(repo, res.updated) \/ InList(repo, res.errors)
Skipped(res, repo) == InList(repo, SkippedRepos(res))

\* C27 (as claimed): in a call without force a repository with an original
\* URL is skipped when its last logged update is less than 24 hours old and
\* is updated when it has no logged update or one more than 24 hours old,
\* successful or failed; with force every repository that has an original
\* URL is updated; a failure at one repository is logged for it and every
\* repository ends in exactly one of updated, skipped, errors.
CooldownApplied ==
  LET res == results'[1].value
  IN \A i \in DOMAIN RepoNames :
       LET repo == RepoNames[i]
           url == res.plan[repo].url
           fails == res.plan[repo].fails
       IN /\ Len(SelectSeq(res.updated \o SkippedRepos(res) \o res.errors,
                           LAMBDA r : r = repo)) = 1
          /\ url = NoUrl => Skipped(res, repo)
          /\ (url # NoUrl /\ res.force) => Attempted(res, repo)
          /\ (url # NoUrl /\ ~res.force /\ repo \in DOMAIN updateLog
                /\ now - updateLog[repo].lastUpdated < CooldownHours)
               => Skipped(res, repo)
          /\ (url # NoUrl /\ ~res.force
                /\ (repo \in DOMAIN updateLog
                      => now - updateLog[repo].lastUpdated > CooldownHours))
               => Attempted(res, repo)
          /\ Attempted(res, repo) =>
               (fails <=> InList(repo, res.errors))

C27_CooldownPerRepository ==
  [][(now' = now /\ results' # <<>> /\ results'[1].ok) => CooldownApplied]_vars

\* ===================================================== generateFinalStructure
\* structure.pages: an object keyed by path; a later page with the same path
\* replaces the earlier one.
GenerateFinalStructure(pagesToUse) ==
  [path \in {pagesToUse[i].path : i \in DOMAIN pagesToUse} |->
     LET last == CHOOSE i \in DOMAIN pagesToUse :
                   /\ pagesToUse[i].path = path
                   /\ \A j \in DOMAIN pagesToUse :
                        pagesToUse[j].path = path => j <= i
     IN [metadata |-> pagesToUse[last].metadata,
         originalUrl |-> pagesToUse[last].url]]

\* The URLs a crawl of the site can record, each a different href.
StructureUrls == {RawSiteSlash, RawAbout, RawAboutSlash, RawAboutQuery, RawDocs}

\* this.pages after a crawl: pages of distinct URLs in the order recorded.
StructureInit ==
  /\ \E urls \in SeqsUpTo(StructureUrls, MaxSitePages),
        doms \in SeqsUpTo({DomAbout, DomBlank}, MaxSitePages) :
       /\ Len(urls) = Len(doms)
       /\ \A i, j \in DOMAIN urls : urls[i] = urls[j] => i = j
       /\ fnIn = [i \in DOMAIN urls |-> PageRecord(urls[i], doms[i])]
  /\ fnOut = <<>>

\* generateFinalStructure on this.pages, and the canonical document of the
\* same pages.
FinalStructureCall ==
  /\ fnOut = <<>>
  /\ fnOut' = <<[structure |-> GenerateFinalStructure(fnIn),
                 doc |-> NormalizeToEddieSchema(ConvertToJSON(fnIn, SiteHost).value)]>>
  /\ UNCHANGED fnIn

\* C29 (as claimed): distinct URLs of the page table have distinct paths, the
\* pages map of generateFinalStructure has one entry per crawled page, and
\* the canonical document has one distinct slug per crawled page, nav and
\* pages agreeing on slug and title position by position.
C29_OneSlugPerCrawledPage ==
  fnOut # <<>> =>
    LET nav == fnOut[1].doc.nav.items
        docPages == fnOut[1].doc.pages.items
    IN /\ \A i, j \in DOMAIN fnIn : fnIn[i].path = fnIn[j].path => i = j
       /\ Cardinality(DOMAIN fnOut[1].structure) = Len(fnIn)
       /\ Len(nav) = Len(fnIn) /\ Len(docPages) = Len(fnIn)
       /\ \A i, j \in DOMAIN nav : nav[i].slug = nav[j].slug => i = j
       /\ \A i \in DOMAIN nav :
            nav[i].slug = docPages[i].slug /\ nav[i].title = docPages[i].title

\* ============================================================ specifications
\* Every specification drives one part of the program and holds the variables
\* of the other parts at their initial values.
CrawlIdle == env = EnvUnset /\ CrawlInit

Init == env \in EnvInputs /\ CrawlInit /\ CacheInit /\ KeyIdle /\ FnIdle /\ DocIdle /\ GenIdle /\ UpdateIdle
Next == CrawlNext /\ UNCHANGED <<updateVars, env, cacheVars, keyVars, fnVars, docVars, run>>
Spec == Init /\ [][Next]_vars
FairSpec == Spec /\ WF_vars(Next)

CacheSpecInit == CrawlIdle /\ CacheInit /\ KeyIdle /\ FnIdle /\ DocIdle /\ GenIdle /\ UpdateIdle
CacheSpecNext == CacheNext /\ UNCHANGED <<updateVars, crawlVars, keyVars, fnVars, docVars, run>>
CacheSpec == CacheSpecInit /\ [][CacheSpecNext]_vars

KeySpecInit == CrawlIdle /\ CacheInit /\ KeyInit /\ FnIdle /\ DocIdle /\ GenIdle /\ UpdateIdle
KeySpecNext == KeyNext /\ UNCHANGED <<updateVars, crawlVars, cacheVars, fnVars, docVars, run>>
KeySpec == KeySpecInit /\ [][KeySpecNext]_vars

GenSpecInit == env \in GenEnvInputs /\ CrawlInit /\ CacheInit /\ KeyIdle /\ FnIdle /\ DocIdle /\ GenIdle /\ UpdateIdle
GenSpecNext == GenNext /\ UNCHANGED <<updateVars, crawlVars, keyVars, fnVars>>
GenSpec == GenSpecInit /\ [][GenSpecNext]_vars

ValidateSpecInit == CrawlIdle /\ CacheInit /\ KeyIdle /\ FnIdle /\ ValidateInit /\ GenIdle /\ UpdateIdle
ValidateSpecNext == ValidateCall /\ UNCHANGED <<updateVars, crawlVars, cacheVars, keyVars, fnVars, run>>
ValidateSpec == ValidateSpecInit /\ [][ValidateSpecNext]_vars

ContentSpecInit == CrawlIdle /\ CacheInit /\ KeyIdle /\ ContentInit /\ GenIdle /\ UpdateIdle
ContentSpecNext == ContentNext /\ UNCHANGED <<updateVars, crawlVars, cacheVars, keyVars, run>>
ContentSpec == ContentSpecInit /\ [][ContentSpecNext]_vars

SeedSpecInit == CrawlIdle /\ CacheInit /\ KeyIdle /\ SeedInit /\ DocIdle /\ GenIdle /\ UpdateIdle
SeedSpecNext ==
  ComputeBrandSeedCall /\ UNCHANGED <<updateVars, crawlVars, cacheVars, keyVars, docVars, run>>
SeedSpec == SeedSpecInit /\ [][SeedSpecNext]_vars

PathSpecInit == CrawlIdle /\ CacheInit /\ KeyIdle /\ PathInit /\ DocIdle /\ GenIdle /\ UpdateIdle
PathSpecNext ==
  UrlToPathCall /\ UNCHANGED <<updateVars, crawlVars, cacheVars, keyVars, docVars, run>>
PathSpec == PathSpecInit /\ [][PathSpecNext]_vars

ImagesSpecInit == CrawlIdle /\ CacheInit /\ KeyIdle /\ ImagesInit /\ DocIdle /\ GenIdle /\ UpdateIdle
ImagesSpecNext ==
  ExtractImagesCall /\ UNCHANGED <<updateVars, crawlVars, cacheVars, keyVars, docVars, run>>
ImagesSpec == ImagesSpecInit /\ [][ImagesSpecNext]_vars

AssetsSpecInit == CrawlIdle /\ CacheInit /\ KeyIdle /\ AssetsInit /\ DocIdle /\ GenIdle /\ UpdateIdle
AssetsSpecNext ==
  DownloadAssetsCall /\ UNCHANGED <<updateVars, crawlVars, cacheVars, keyVars, docVars, run>>
AssetsSpec == AssetsSpecInit /\ [][AssetsSpecNext]_vars

StructureSpecInit == CrawlIdle /\ CacheInit /\ KeyIdle /\ StructureInit /\ DocIdle /\ GenIdle /\ UpdateIdle
StructureSpecNext ==
  FinalStructureCall /\ UNCHANGED <<updateVars, crawlVars, cacheVars, keyVars, docVars, run>>
StructureSpec == StructureSpecInit /\ [][StructureSpecNext]_vars

UpdateSpecInit == CrawlIdle /\ CacheInit /\ KeyIdle /\ FnIdle /\ DocIdle /\ GenIdle /\ UpdateIdle
UpdateSpecNext == UpdateNext /\ UNCHANGED <<crawlVars, keyVars, fnVars, docVars, run>>
UpdateSpec == UpdateSpecInit /\ [][UpdateSpecNext]_vars

====
